---- MODULE Spec2Model ----
(***************************************************************************)
(* Content-tree ordering primitives, scanning, metadata derivation and     *)
(* element-tree projection of the repository content processor.            *)
(*                                                                         *)
(* Text is modelled as sequences of one-character strings, so that parsing *)
(* and formatting are computed the way the code computes them.             *)
(***************************************************************************)
EXTENDS Integers, Sequences, FiniteSets, Bags, TLC

VARIABLES
  cmpArgs,    \* the three fractional indices handed to FractionalIndex.compare
  cmpRes,     \* the comparison results
  slugIn,     \* the text handed to Slug.parse
  slugOut,    \* the parsed slug and the slug parsed back from its .full
  fs,         \* the markdown files of the repository (the checkout)
  pc,         \* the position of the run
  scanned,    \* the ScannedRepository
  tasks,      \* the bag of generation tasks that are scheduled and not finished
  disk,       \* the JSON artifacts on disk: file -> content
  written,    \* the artifacts written by the current generation run
  firstRun,   \* what the first generation run wrote and returned
  failed,     \* the current generation run has thrown
  localeIndices,  \* GeneratedFiles.localeIndices of the current run
  folderIndices,  \* GeneratedFiles.folderIndices of the current run
  tree,       \* what buildElementTree returned
  projected,  \* what generateMetadata of an element of the tree returned
  errors,     \* what validate of the locale elements yielded
  warnings,   \* what the scanner has logged with core.warning
  pipeIn,     \* the elements and the options handed to a ValidationPipeline
  pipeOut,    \* what the pipeline returned, or that it threw
  changes,    \* the file changes handed to the incremental updater
  jobs,       \* the position of the updater in the handling of each change
  updatedFiles,  \* the updatedFiles set of the incremental updater
  initially   \* the artifacts as they were when the updater was called

ordVars == <<cmpArgs, cmpRes, slugIn, slugOut>>
genVars == <<tasks, disk, written, firstRun, failed, localeIndices,
             folderIndices>>
treeVars == <<tree, projected, errors>>
pipeVars == <<pipeIn, pipeOut>>
updVars == <<changes, jobs, updatedFiles, initially>>
vars == <<cmpArgs, cmpRes, slugIn, slugOut, fs, pc, scanned, tasks, disk,
          written, firstRun, failed, localeIndices, folderIndices, tree,
          projected, errors, warnings, pipeIn, pipeOut, changes, jobs,
          updatedFiles, initially>>

(***************************************************************************)
(* Bounds of the model.                                                    *)
(***************************************************************************)
MaxIdxLen == 3      \* length of the text of a compared fractional index
MaxLen == 5         \* length of a text handed to Slug.parse
MaxDepth == 2       \* folders nested below a top-level folder
MaxIds == 2         \* distinct well-formed ids among the validated elements
MaxErrors == 2      \* the largest maxErrors option of a pipeline
MaxChanges == 2     \* files changed by one push

(***************************************************************************)
(* Characters.                                                             *)
(***************************************************************************)
Digits == {"0", "1", "2", "3", "4", "5", "6", "7", "8", "9"}
Lower == {"a", "b", "c", "d", "e", "f", "g", "h", "i", "j", "k", "l", "m",
          "n", "o", "p", "q", "r", "s", "t", "u", "v", "w", "x", "y", "z"}
Upper == {"A", "B", "C", "D", "E", "F", "G", "H", "I", "J", "K", "L", "M",
          "N", "O", "P", "Q", "R", "S", "T", "U", "V", "W", "X", "Y", "Z"}
NameChars == Lower \cup Digits \cup {"-"}

\* Collation order of the characters that occur in slugs.
CharOrder ==
  <<"-", "0", "1", "2", "3", "4", "5", "6", "7", "8", "9",
    "a", "b", "c", "d", "e", "f", "g", "h", "i", "j", "k", "l", "m",
    "n", "o", "p", "q", "r", "s", "t", "u", "v", "w", "x", "y", "z">>

Rank(c) == CHOOSE i \in 1..Len(CharOrder) : CharOrder[i] = c

AllIn(s, S) == \A i \in 1..Len(s) : s[i] \in S

Sign(n) == IF n < 0 THEN -1 ELSE IF n > 0 THEN 1 ELSE 0

RECURSIVE LocaleCompareFrom(_, _, _)
LocaleCompareFrom(s, t, i) ==
  IF i > Len(s) /\ i > Len(t) THEN 0
  ELSE IF i > Len(s) THEN -1
  ELSE IF i > Len(t) THEN 1
  ELSE IF s[i] # t[i] THEN Sign(Rank(s[i]) - Rank(t[i]))
  ELSE LocaleCompareFrom(s, t, i + 1)

\* String.prototype.localeCompare on slug text.
LocaleCompare(s, t) == LocaleCompareFrom(s, t, 1)

(***************************************************************************)
(* Numbers.  A number is held as its decimal digits without leading zeros. *)
(***************************************************************************)
ExpDigits == 22  \* a number of this many digits prints in exponent notation

RECURSIVE StripZeros(_)
StripZeros(ds) ==
  IF Len(ds) > 1 /\ ds[1] = "0" THEN StripZeros(Tail(ds)) ELSE ds

\* parseInt(text, 10) of a text of digits.
ParseInt(ds) == StripZeros(ds)

\* The sign of left - right.
NumCompare(m, n) ==
  IF Len(m) # Len(n) THEN Sign(Len(m) - Len(n)) ELSE LocaleCompare(m, n)

RECURSIVE DropTrailingZeros(_)
DropTrailingZeros(ds) ==
  IF Len(ds) > 1 /\ ds[Len(ds)] = "0"
    THEN DropTrailingZeros(SubSeq(ds, 1, Len(ds) - 1))
    ELSE ds

RECURSIVE NatDigits(_)
NatDigits(n) ==
  LET d == CharOrder[(n % 10) + 2]
  IN IF n < 10 THEN <<d>> ELSE Append(NatDigits(n \div 10), d)

\* `${number}`: decimal digits below 1e21, exponent notation from there on.
NumToString(n) ==
  IF Len(n) < ExpDigits THEN n
  ELSE LET m == DropTrailingZeros(n)
           frac == IF Len(m) > 1 THEN <<".">> \o Tail(m) ELSE <<>>
       IN <<m[1]>> \o frac \o <<"e", "+">> \o NatDigits(Len(n) - 1)

(***************************************************************************)
(* FractionalIndex.                                                        *)
(***************************************************************************)
Thrown == [ok |-> FALSE]

\* The split point of /^(\d+)([a-z]+)$/: the number of leading digits.
FISplit(s) ==
  {k \in 1..(Len(s) - 1) :
     /\ AllIn(SubSeq(s, 1, k), Digits)
     /\ AllIn(SubSeq(s, k + 1, Len(s)), Lower)}

FIIsValid(s) == FISplit(s) # {}

FIParse(s) ==
  IF ~FIIsValid(s) THEN Thrown
  ELSE LET k == CHOOSE k \in FISplit(s) : TRUE
       IN [ok |-> TRUE,
           number |-> ParseInt(SubSeq(s, 1, k)),
           letters |-> SubSeq(s, k + 1, Len(s))]

FIFull(fi) == NumToString(fi.number) \o fi.letters

FICompareSwapped(left, right) ==
  IF left.number # right.number THEN NumCompare(left.number, right.number)
  ELSE IF Len(left.letters) # Len(right.letters)
    THEN Len(left.letters) - Len(right.letters)
  ELSE LocaleCompare(left.letters, right.letters)

FICompare(left, right) ==
  IF left.number # right.number THEN NumCompare(left.number, right.number)
  ELSE IF Len(left.letters) # Len(right.letters)
    THEN Len(right.letters) - Len(left.letters)
  ELSE LocaleCompare(left.letters, right.letters)

FIEquals(left, right) ==
  left.number = right.number /\ left.letters = right.letters

(***************************************************************************)
(* Slug.                                                                   *)
(***************************************************************************)
\* The split point of /^(\d+[a-z]+)-([a-z0-9-]+)$/: the position of the
\* hyphen that ends the fractional index.
SlugSplit(s) ==
  {j \in 2..(Len(s) - 1) :
     /\ s[j] = "-"
     /\ FIIsValid(SubSeq(s, 1, j - 1))
     /\ AllIn(SubSeq(s, j + 1, Len(s)), NameChars)}

SlugIsValid(s) == SlugSplit(s) # {}

SlugIsValidName(name) == Len(name) > 0 /\ AllIn(name, NameChars)

SlugParse(s) ==
  IF ~SlugIsValid(s) THEN Thrown
  ELSE LET j == CHOOSE j \in SlugSplit(s) : TRUE
           fi == FIParse(SubSeq(s, 1, j - 1))
           name == SubSeq(s, j + 1, Len(s))
       IN IF fi.ok /\ SlugIsValidName(name)
            THEN [ok |-> TRUE, fractionalIndex |-> fi, name |-> name]
            ELSE Thrown

SlugFull(slug) == FIFull(slug.fractionalIndex) \o <<"-">> \o slug.name

SlugCompare(left, right) ==
  LET indexComparison == FICompare(left.fractionalIndex, right.fractionalIndex)
  IN IF indexComparison # 0 THEN indexComparison
     ELSE LocaleCompare(left.name, right.name)

SlugEquals(left, right) ==
  /\ FIEquals(left.fractionalIndex, right.fractionalIndex)
  /\ left.name = right.name

(***************************************************************************)
(* Inputs of the ordering primitives.                                      *)
(***************************************************************************)
RECURSIVE SeqsUpTo(_, _)
\* All non-empty sequences over S of length at most n.
SeqsUpTo(S, n) ==
  IF n = 0 THEN {}
  ELSE LET shorter == SeqsUpTo(S, n - 1)
       IN {<<c>> : c \in S} \cup shorter
            \cup {Append(s, c) : s \in shorter, c \in S}

CmpIndices ==
  {FIParse(s) : s \in {t \in SeqsUpTo({"1", "2", "a", "b"}, MaxIdxLen) :
                         FIIsValid(t)}}

\* 10^21, the smallest integer that prints in exponent notation.
BigNumber == <<"1">> \o [i \in 1..(ExpDigits - 1) |-> "0"]

SlugTexts ==
  SeqsUpTo({"0", "1", "a", "b", "-"}, MaxLen)
    \cup {BigNumber \o <<"a", "-", "x">>}

NoCmp == [done |-> FALSE]
NoSlug == [done |-> FALSE]

(***************************************************************************)
(* The ordering primitives as a state machine: draw inputs, apply.         *)
(***************************************************************************)
InitOrder ==
  /\ \/ /\ cmpArgs \in [a : CmpIndices, b : CmpIndices, c : CmpIndices]
        /\ cmpRes = NoCmp
        /\ slugIn = <<>>
        /\ slugOut = NoSlug
     \/ /\ cmpArgs = <<>>
        /\ cmpRes = NoCmp
        /\ slugIn \in SlugTexts
        /\ slugOut = NoSlug
  /\ fs = <<>>
  /\ pc = "order"
  /\ scanned = <<>>
  /\ tasks = EmptyBag
  /\ disk = <<>>
  /\ written = <<>>
  /\ firstRun = [done |-> FALSE]
  /\ failed = FALSE
  /\ localeIndices = <<>>
  /\ folderIndices = <<>>
  /\ tree = [done |-> FALSE]
  /\ projected = [done |-> FALSE]
  /\ errors = [done |-> FALSE]
  /\ warnings = {}
  /\ pipeIn = <<>>
  /\ pipeOut = [done |-> FALSE]
  /\ changes = <<>>
  /\ jobs = <<>>
  /\ updatedFiles = {}
  /\ initially = <<>>

Compare ==
  /\ cmpArgs # <<>>
  /\ ~cmpRes.done
  /\ cmpRes' = [done |-> TRUE,
                ab |-> FICompare(cmpArgs.a, cmpArgs.b),
                ba |-> FICompare(cmpArgs.b, cmpArgs.a),
                bc |-> FICompare(cmpArgs.b, cmpArgs.c),
                ac |-> FICompare(cmpArgs.a, cmpArgs.c)]
  /\ UNCHANGED <<cmpArgs, slugIn, slugOut, fs, pc, scanned, genVars, treeVars,
                 warnings, pipeVars, updVars>>

ParseSlug ==
  /\ slugIn # <<>>
  /\ ~slugOut.done
  /\ LET parsed == SlugParse(slugIn)
     IN slugOut' = [done |-> TRUE,
                    parsed |-> parsed,
                    again |-> IF parsed.ok THEN SlugParse(SlugFull(parsed))
                              ELSE Thrown]
  /\ UNCHANGED <<cmpArgs, cmpRes, slugIn, fs, pc, scanned, genVars, treeVars,
                 warnings, pipeVars, updVars>>

NextOrder == Compare \/ ParseSlug

SpecOrder == InitOrder /\ [][NextOrder]_vars

(***************************************************************************)
(* The checkout.  A directory is a record with its entries in readdir      *)
(* order; a markdown file carries its parsed frontmatter and its git       *)
(* metadata.  Ids are indices into a table of ULID spellings.              *)
(***************************************************************************)
NoFile == [exists |-> FALSE]

\* A commit time as git prints it (%aI): an instant and a zone offset.
Committed == [instant |-> "t", offset |-> "+02:00"]

MdFile(fm, sha) ==
  [exists |-> TRUE, frontmatter |-> fm, sha |-> sha, size |-> Len(sha),
   created_at |-> Committed, updated_at |-> Committed]

MdExt == <<".", "m", "d">>

FileEntry(name, md) == [kind |-> "file", name |-> name, md |-> md]

DirEntry(name, index, entries) ==
  [kind |-> "dir", name |-> name, index |-> index, entries |-> entries]

LocaleEntry(name, localeMd, entries) ==
  [kind |-> "dir", name |-> name, localeMd |-> localeMd, index |-> NoFile,
   entries |-> entries]

\* frontmatter.type, undefined when the frontmatter has no such key.
FmType(fm) == IF "type" \in DOMAIN fm THEN fm.type ELSE "undefined"

EnUS == <<"e", "n", "-", "U", "S">>
UkUA == <<"u", "k", "-", "U", "A">>
TopName == <<"1", "a", "-", "c">>
SubName == <<"1", "a", "-", "d">>
SiblingName == <<"1", "a", "a", "-", "h">>
FirstArticle == <<"1", "0", "a", "-", "a">>
SecondArticle == <<"2", "a", "-", "b">>
IndexMd == <<"i", "n", "d", "e", "x">> \o MdExt
LocaleMd == <<"l", "o", "c", "a", "l", "e">> \o MdExt

\* The shapes of the checkout that the runs are tried on: a chain of nested
\* folders of every mix of kinds, at most one of them without index.md,
\* two articles in every folder (the second one possibly without a type),
\* possibly a sibling folder without index.md next to the deepest one, and
\* a second locale whose chapter has the same slug as the first one's.
Shapes ==
  [kinds : [1..(MaxDepth + 1) -> {"chapter", "directory"}],
   noIndexAt : 0..(MaxDepth + 1),
   sibling : BOOLEAN,
   typeless : BOOLEAN]

FolderFm(d, kind) == [id |-> d, title |-> "folder", type |-> kind]

ArticleFm(n, typed) ==
  IF typed THEN [id |-> n, title |-> "article", type |-> "article"]
  ELSE [id |-> n, title |-> "article"]

RECURSIVE ChainDir(_, _)
ChainDir(d, shape) ==
  LET index == IF shape.noIndexAt = d THEN NoFile
               ELSE MdFile(FolderFm(d, shape.kinds[d]), "sha-index")
      below == IF d > MaxDepth THEN <<>> ELSE <<ChainDir(d + 1, shape)>>
      beside == IF shape.sibling /\ d = MaxDepth
                  THEN <<DirEntry(SiblingName, NoFile,
                           <<FileEntry(FirstArticle \o MdExt,
                               MdFile(ArticleFm(30, TRUE), "sha-article"))>>)>>
                  ELSE <<>>
  IN DirEntry(IF d = 1 THEN TopName ELSE SubName, index,
       <<FileEntry(FirstArticle \o MdExt,
           MdFile(ArticleFm(10 + d, TRUE), "sha-article"))>>
       \o below \o beside
       \o <<FileEntry(SecondArticle \o MdExt,
              MdFile(ArticleFm(20 + d, ~shape.typeless), "sha-article"))>>)

LocaleFm(n) == [id |-> n, title |-> "locale", type |-> "locale"]

Checkout(shape) ==
  <<LocaleEntry(EnUS, MdFile(LocaleFm(8), "sha-locale"),
      <<ChainDir(1, shape)>>),
    LocaleEntry(UkUA, MdFile(LocaleFm(9), "sha-locale"),
      <<DirEntry(TopName, MdFile(FolderFm(7, "chapter"), "sha-index"),
          <<FileEntry(FirstArticle \o MdExt,
              MdFile(ArticleFm(31, TRUE), "sha-article"))>>)>>)>>

(***************************************************************************)
(* ContentScanner.                                                         *)
(***************************************************************************)
\* /^[a-z]{2}-[A-Z]{2}$/
IsValidLocale(name) ==
  /\ Len(name) = 5
  /\ name[1] \in Lower /\ name[2] \in Lower
  /\ name[3] = "-"
  /\ name[4] \in Upper /\ name[5] \in Upper

GitMetadata(md) ==
  [sha |-> md.sha, size |-> md.size, created_at |-> md.created_at,
   updated_at |-> md.updated_at]

\* String.prototype.endsWith
EndsWith(name, suffix) ==
  /\ Len(name) >= Len(suffix)
  /\ SubSeq(name, Len(name) - Len(suffix) + 1, Len(name)) = suffix

\* path.basename(path, extension) of a path given by its segments.
Basename(path, ext) ==
  LET name == path[Len(path)]
  IN IF EndsWith(name, ext) /\ name # ext
       THEN SubSeq(name, 1, Len(name) - Len(ext))
       ELSE name

ScannedFile(relativePath, md) ==
  [relativePath |-> relativePath,
   fileInfo |-> [frontmatter |-> md.frontmatter],
   gitMetadata |-> GitMetadata(md)]

RECURSIVE Repeat(_, _)
Repeat(s, n) == IF n = 0 THEN <<>> ELSE s \o Repeat(s, n - 1)

IsDir(entry) == entry.kind = "dir"
IsFile(entry) == entry.kind = "file"

Last(s) == s[Len(s)]

RECURSIVE Flatten(_)
Flatten(ss) == IF Len(ss) = 0 THEN <<>> ELSE Head(ss) \o Flatten(Tail(ss))

\* A scanner that also takes the markdown files of the sub-directories that
\* have no index.md.
ScanArticlesDeep(subEntries, folderPath) ==
  LET Loaded(entries) ==
        SelectSeq(entries,
                  LAMBDA e : /\ IsFile(e) /\ EndsWith(e.name, MdExt)
                             /\ e.md.exists)
      Articles(entries, path) ==
        [i \in 1..Len(Loaded(entries)) |->
           ScannedFile(Append(path, Loaded(entries)[i].name),
                       Loaded(entries)[i].md)]
      bare == SelectSeq(subEntries,
                        LAMBDA e : IsDir(e) /\ ~e.index.exists)
  IN Articles(subEntries, folderPath)
       \o Flatten([i \in 1..Len(bare) |->
                     Articles(bare[i].entries,
                              Append(folderPath, bare[i].name))])

\* The articles of a folder: its markdown files that load, in readdir order.
ScanArticles(subEntries, folderPath) ==
  LET files == SelectSeq(subEntries,
                 LAMBDA e : /\ e.name # IndexMd
                            /\ e.name[1] # "."
                            /\ IsFile(e) /\ EndsWith(e.name, MdExt))
      loaded == SelectSeq(files, LAMBDA e : e.md.exists)
  IN [i \in 1..Len(loaded) |->
        ScannedFile(Append(folderPath, loaded[i].name), loaded[i].md)]

RECURSIVE ScanFoldersFrom(_, _, _)
\* scanFolders(folderPath): one ScannedFolder per sub-directory that has an
\* index.md; the sub-directories of each are scanned once for every
\* directory entry it holds.
ScanFoldersFrom(entries, relativePath, i) ==
  IF i > Len(entries) THEN <<>>
  ELSE
    LET entry == entries[i]
        rest == ScanFoldersFrom(entries, relativePath, i + 1)
        folderPath == Append(relativePath, entry.name)
    IN IF entry.name[1] = "." \/ ~IsDir(entry) THEN rest
       ELSE IF ~entry.index.exists THEN rest
       ELSE <<[relativePath |-> folderPath,
               name |-> entry.name,
               indexFile |-> ScannedFile(Append(folderPath, IndexMd),
                                         entry.index),
               articles |-> ScanArticles(entry.entries, folderPath),
               subfolders |->
                 Repeat(ScanFoldersFrom(entry.entries, folderPath, 1),
                        Len(SelectSeq(entry.entries, IsDir)))]>>
            \o rest

ScanFolders(entries, relativePath) == ScanFoldersFrom(entries, relativePath, 1)

RECURSIVE ScanLocalesFrom(_, _)
ScanLocalesFrom(root, i) ==
  IF i > Len(root) THEN <<>>
  ELSE
    LET entry == root[i]
        rest == ScanLocalesFrom(root, i + 1)
    IN IF ~IsDir(entry) \/ ~IsValidLocale(entry.name) THEN rest
       ELSE IF ~entry.localeMd.exists THEN rest
       ELSE <<[relativePath |-> <<entry.name>>,
               name |-> entry.name,
               localeFile |-> ScannedFile(<<entry.name, LocaleMd>>,
                                          entry.localeMd),
               chapters |-> ScanFolders(entry.entries, <<entry.name>>)]>>
            \o rest

ScanRepositoryOf(root) == [locales |-> ScanLocalesFrom(root, 1)]

\* /^[0-9]+[a-z]?-.+$/
IsFractionalIndex(name) ==
  \E k \in 1..Len(name) :
    /\ AllIn(SubSeq(name, 1, k), Digits)
    /\ \/ k + 1 < Len(name) /\ name[k + 1] = "-"
       \/ k + 2 < Len(name) /\ name[k + 1] \in Lower /\ name[k + 2] = "-"

Warning(what, name) == [what |-> what, name |-> name]

\* What the article loop of scanFolders logs for the entries of a folder.
ArticleWarnings(subEntries) ==
  {Warning("article-naming", e.name) :
     e \in {subEntries[i] : i \in
             {i \in 1..Len(subEntries) :
                /\ subEntries[i].name # IndexMd
                /\ subEntries[i].name[1] # "."
                /\ IsFile(subEntries[i])
                /\ EndsWith(subEntries[i].name, MdExt)
                /\ ~IsFractionalIndex(Basename(<<subEntries[i].name>>,
                                               MdExt))}}}

RECURSIVE FolderWarnings(_, _)
\* What scanFolders logs for the entries of a directory.
FolderWarnings(entries, isLocaleRoot) ==
  UNION {LET entry == entries[i]
         IN IF entry.name[1] = "." \/ ~IsDir(entry) THEN {}
            ELSE (IF ~isLocaleRoot /\ ~IsFractionalIndex(entry.name)
                    THEN {Warning("folder-naming", entry.name)} ELSE {})
                 \cup (IF ~entry.index.exists
                         THEN {Warning("index-not-found", entry.name)}
                         ELSE ArticleWarnings(entry.entries)
                                \cup FolderWarnings(entry.entries, FALSE))
         : i \in 1..Len(entries)}

\* What scanLocales and the scanFolders it runs log.
ScanWarnings(root) ==
  UNION {LET entry == root[i]
         IN IF ~IsDir(entry) \/ ~IsValidLocale(entry.name) THEN {}
            ELSE IF ~entry.localeMd.exists
              THEN {Warning("locale-not-found", entry.name)}
            ELSE FolderWarnings(entry.entries, TRUE)
         : i \in 1..Len(root)}

(***************************************************************************)
(* DomainServices: the metadata builders and the sorter.                   *)
(***************************************************************************)
\* { ...frontmatter, locale, slug, ...gitMetadata }
BuildMetadata(frontmatter, gitMetadata, locale, slug) ==
  gitMetadata @@ [locale |-> locale, slug |-> slug] @@ frontmatter

\* Array.prototype.sort with a comparator: a stable sort.  cmp[j, i] is
\* what the comparator returns for the items at positions j and i.
SortedBy(items, cmp) ==
  LET n == Len(items)
      pos(i) == 1 + Cardinality({j \in 1..n :
                      \/ cmp[j, i] < 0
                      \/ cmp[j, i] = 0 /\ j < i})
  IN [k \in 1..n |-> items[CHOOSE i \in 1..n : pos(i) = k]]

\* The text the sorter compares: the item's fractionalIndex field when it
\* has one, the empty text otherwise.
SorterKey(item) ==
  IF "fractionalIndex" \in DOMAIN item THEN item.fractionalIndex ELSE <<>>

SorterCompare(a, b) == LocaleCompare(SorterKey(a), SorterKey(b))

FractionalIndexSorterSort(items) ==
  SortedBy(items, [j \in 1..Len(items), i \in 1..Len(items) |->
                     SorterCompare(items[j], items[i])])

(***************************************************************************)
(* AncestorBuilder: reads locale.md and the index.md files of the checkout.*)
(***************************************************************************)
NoDir == [kind |-> "none"]

RECURSIVE EntryNamed(_, _, _)
EntryNamed(entries, name, i) ==
  IF i > Len(entries) THEN NoDir
  ELSE IF IsDir(entries[i]) /\ entries[i].name = name THEN entries[i]
  ELSE EntryNamed(entries, name, i + 1)

RECURSIVE DirAt(_, _)
\* The directory of the checkout at a path, NoDir when there is none.
DirAt(entries, path) ==
  LET first == EntryNamed(entries, Head(path), 1)
  IN IF Len(path) = 1 \/ first = NoDir THEN first
     ELSE DirAt(first.entries, Tail(path))

BuildLocaleAncestor(root, localeName) ==
  LET dir == DirAt(root, <<localeName>>)
  IN IF dir = NoDir \/ ~dir.localeMd.exists THEN Thrown
     ELSE IF FmType(dir.localeMd.frontmatter) # "locale" THEN Thrown
     ELSE [ok |-> TRUE,
           list |-> <<BuildMetadata(dir.localeMd.frontmatter,
                                    GitMetadata(dir.localeMd), localeName,
                                    <<>>)>>]

RECURSIVE BuildFolderAncestors(_, _, _, _)
BuildFolderAncestors(root, localeName, slugPath, n) ==
  IF n = 0 THEN [ok |-> TRUE, list |-> <<>>]
  ELSE
    LET before == BuildFolderAncestors(root, localeName, slugPath, n - 1)
        currentSlug == SubSeq(slugPath, 1, n)
        dir == DirAt(root, <<localeName>> \o currentSlug)
    IN IF ~before.ok THEN Thrown
       ELSE IF dir = NoDir \/ ~dir.index.exists THEN Thrown
       ELSE IF FmType(dir.index.frontmatter) \in {"chapter", "directory"}
         THEN [ok |-> TRUE,
               list |-> Append(before.list,
                          BuildMetadata(dir.index.frontmatter,
                                        GitMetadata(dir.index), localeName,
                                        currentSlug))]
       ELSE before

\* An ancestor list that ends with the locale.
BuildAncestorsLocaleLast(root, localeName, slugPath) ==
  LET localeAncestor == BuildLocaleAncestor(root, localeName)
      folders == BuildFolderAncestors(root, localeName, slugPath,
                                      Len(slugPath))
  IN IF ~localeAncestor.ok \/ ~folders.ok THEN Thrown
     ELSE [ok |-> TRUE, list |-> folders.list \o localeAncestor.list]

BuildAncestors(root, localeName, slugPath) ==
  LET localeAncestor == BuildLocaleAncestor(root, localeName)
      folders == BuildFolderAncestors(root, localeName, slugPath,
                                      Len(slugPath))
  IN IF ~localeAncestor.ok \/ ~folders.ok THEN Thrown
     ELSE [ok |-> TRUE, list |-> localeAncestor.list \o folders.list]

(***************************************************************************)
(* MetadataGeneratorService.                                               *)
(***************************************************************************)
BuildArticleMetadata(article, locale, parentSlug) ==
  LET articleName == Basename(article.relativePath, MdExt)
  IN BuildMetadata(article.fileInfo.frontmatter, article.gitMetadata, locale,
                   Append(parentSlug, articleName))

FolderType(folder) == FmType(folder.indexFile.fileInfo.frontmatter)

FolderMetadata(folder, locale, slug) ==
  BuildMetadata(folder.indexFile.fileInfo.frontmatter,
                folder.indexFile.gitMetadata, locale, slug)

RECURSIVE BuildDirectoryChildren(_, _, _)
BuildDirectoryChildren(folder, locale, parentSlug) ==
  LET typed == SelectSeq(folder.articles,
                 LAMBDA a : FmType(a.fileInfo.frontmatter) = "article")
      articles == [i \in 1..Len(typed) |->
                     BuildArticleMetadata(typed[i], locale, parentSlug)]
      Sub(subfolder) ==
        IF FolderType(subfolder) = "chapter" THEN <<>>
        ELSE LET subfolderSlug == Append(parentSlug, subfolder.name)
             IN <<[children |->
                     FractionalIndexSorterSort(
                       BuildDirectoryChildren(subfolder, locale,
                                              subfolderSlug))]
                  @@ FolderMetadata(subfolder, locale, subfolderSlug)>>
  IN articles
       \o Flatten([i \in 1..Len(folder.subfolders) |->
                     Sub(folder.subfolders[i])])

BuildChapterChildren(folder, locale, parentSlug) ==
  LET articles == [i \in 1..Len(folder.articles) |->
                     BuildArticleMetadata(folder.articles[i], locale,
                                          parentSlug)]
      Sub(subfolder) ==
        LET subfolderSlug == Append(parentSlug, subfolder.name)
        IN IF FolderType(subfolder) = "chapter"
             THEN <<FolderMetadata(subfolder, locale, subfolderSlug)>>
           ELSE IF FolderType(subfolder) = "directory"
             THEN <<[children |->
                       FractionalIndexSorterSort(
                         BuildDirectoryChildren(subfolder, locale,
                                                subfolderSlug))]
                    @@ FolderMetadata(subfolder, locale, subfolderSlug)>>
           ELSE <<>>
  IN articles
       \o Flatten([i \in 1..Len(folder.subfolders) |->
                     Sub(folder.subfolders[i])])

\* generateLocalesJson: the content of locales.json.
GenerateLocalesJson(repo) ==
  IF \E i \in 1..Len(repo.locales) :
       FmType(repo.locales[i].localeFile.fileInfo.frontmatter) # "locale"
    THEN Thrown
  ELSE [ok |-> TRUE,
        content |-> [i \in 1..Len(repo.locales) |->
                       BuildMetadata(
                         repo.locales[i].localeFile.fileInfo.frontmatter,
                         repo.locales[i].localeFile.gitMetadata,
                         repo.locales[i].name, <<>>)]]

BuildLocaleIndices(locale) ==
  IF \E i \in 1..Len(locale.chapters) :
       FolderType(locale.chapters[i]) # "chapter"
    THEN Thrown
  ELSE
    LET Shallow(chapter) == FolderMetadata(chapter, locale.name,
                                           <<chapter.name>>)
        Full(chapter) ==
          [children |->
             FractionalIndexSorterSort(
               BuildChapterChildren(chapter, locale.name, <<chapter.name>>))]
          @@ Shallow(chapter)
    IN [ok |-> TRUE,
        full |-> [i \in 1..Len(locale.chapters) |->
                    Full(locale.chapters[i])],
        shallow |-> [i \in 1..Len(locale.chapters) |->
                       Shallow(locale.chapters[i])]]

\* The three artifacts generateFolderIndices computes for one folder.
FolderArtifacts(root, folder, locale, parentSlug) ==
  LET folderSlug == Append(parentSlug, folder.name)
      ancestors == BuildAncestors(root, locale, parentSlug)
      children == IF FolderType(folder) = "chapter"
                    THEN BuildChapterChildren(folder, locale, folderSlug)
                    ELSE BuildDirectoryChildren(folder, locale, folderSlug)
      shallowMetadata == FolderMetadata(folder, locale, folderSlug)
  IN IF ~ancestors.ok THEN Thrown
     ELSE [ok |-> TRUE,
           ancestors |-> ancestors.list,
           shallow |-> shallowMetadata,
           full |-> [children |-> FractionalIndexSorterSort(children)]
                      @@ shallowMetadata]

\* path.join(directory, file name)
FileAt(dir, file) == [dir |-> dir, file |-> file]

\* A writer that appends to a file that is already there.
JsonFileWriterAppend(files, file, content) ==
  (file :> IF file \in DOMAIN files THEN <<files[file], content>>
           ELSE content) @@ files

\* JsonFileWriter.write: the file holds the content, whatever it held.
JsonFileWriterWrite(files, file, content) == (file :> content) @@ files

ArtifactName(which) ==
  CASE which = "full" -> "index.full.json"
    [] which = "shallow" -> "index.shallow.json"
    [] which = "ancestors" -> "ancestors.json"

RECURSIVE Join(_, _)
\* Array.prototype.join
Join(parts, sep) ==
  IF Len(parts) = 0 THEN <<>>
  ELSE IF Len(parts) = 1 THEN parts[1]
  ELSE parts[1] \o <<sep>> \o Join(Tail(parts), sep)

(***************************************************************************)
(* The validation elements: ULID, ContentPath, and the element tree that   *)
(* buildElementTree makes of a scanned repository.                         *)
(***************************************************************************)
UlidLength == 26

\* The characters a ULID may hold: 0-9 and A-Z without I, L, O, U.
Crockford ==
  <<"0", "1", "2", "3", "4", "5", "6", "7", "8", "9", "A", "B", "C", "D",
    "E", "F", "G", "H", "J", "K", "M", "N", "P", "Q", "R", "S", "T", "V",
    "W", "X", "Y", "Z">>

\* The spelling of the id a frontmatter holds.
Spelling(n) ==
  [i \in 1..UlidLength |->
     IF i < UlidLength THEN "0"
     ELSE IF n < Len(Crockford) THEN Crockford[n + 1] ELSE "u"]

\* /^[0-9A-HJKMNP-TV-Z]{26}$/
ULIDIsValid(value) ==
  /\ Len(value) = UlidLength
  /\ AllIn(value, {Crockford[i] : i \in 1..Len(Crockford)})

\* ULID.from(frontmatter.id)
ULIDFrom(n) ==
  IF ULIDIsValid(Spelling(n)) THEN [ok |-> TRUE, value |-> n] ELSE Thrown

RECURSIVE Split(_, _)
\* String.prototype.split
Split(text, sep) ==
  IF \A k \in 1..Len(text) : text[k] # sep THEN <<text>>
  ELSE LET k == CHOOSE k \in 1..Len(text) :
                  text[k] = sep /\ \A j \in 1..(k - 1) : text[j] # sep
       IN <<SubSeq(text, 1, k - 1)>>
            \o Split(SubSeq(text, k + 1, Len(text)), sep)

ContentPathParse(text) ==
  LET parts == SelectSeq(Split(text, "/"), LAMBDA part : Len(part) > 0)
      segments == [i \in 1..(Len(parts) - 1) |-> SlugParse(parts[i + 1])]
  IN IF Len(parts) = 0 THEN Thrown
     ELSE IF ~IsValidLocale(parts[1]) THEN Thrown
     ELSE IF \E i \in 1..Len(segments) : ~segments[i].ok THEN Thrown
     ELSE [ok |-> TRUE, locale |-> parts[1], segments |-> segments]

\* ContentPath.path: the locale, then every segment in full.
ContentPathPath(path) ==
  <<path.locale>> \o [i \in 1..Len(path.segments) |-> SlugFull(path.segments[i])]

ContentPathToString(path) == Join(ContentPathPath(path), "/")

\* new Date(git time): the instant, without the zone it was printed in.
FileStats(gitMetadata) ==
  [size |-> gitMetadata.size,
   createdAt |-> gitMetadata.created_at.instant,
   updatedAt |-> gitMetadata.updated_at.instant,
   sha |-> gitMetadata.sha]

\* Date.prototype.toISOString: the instant printed in UTC.
ToISOString(date) == [instant |-> date, offset |-> "Z"]

Element(type, path, frontmatter, stats, children) ==
  [type |-> type, path |-> path, frontmatter |-> frontmatter,
   stats |-> stats, children |-> children]

\* The elements of a list of results, Thrown when one of them is.
Collected(results) ==
  IF \E i \in 1..Len(results) : ~results[i].ok THEN Thrown
  ELSE [ok |-> TRUE,
        elements |-> Flatten([i \in 1..Len(results) |->
                                results[i].elements])]

\* The ArticleElement of one article of a folder.
ArticleElementOf(article, basePath) ==
  LET articlePath ==
        ContentPathParse(basePath \o <<"/">>
                           \o Basename(article.relativePath, MdExt))
  IN IF ~articlePath.ok THEN Thrown
     ELSE [ok |-> TRUE,
           elements |->
             <<Element("article", articlePath, article.fileInfo.frontmatter,
                       FileStats(article.gitMetadata), <<>>)>>]

\* The element of a folder whose path parsed, given what
\* processElementFolder made of its content; addChild of a directory
\* refuses a chapter.
FolderElementOf(folder, type, folderPath, parentType, below) ==
  IF ~folderPath.ok THEN Thrown
  ELSE IF type \notin {"chapter", "directory"}
    THEN [ok |-> TRUE, elements |-> <<>>]
  ELSE IF ~below.ok THEN Thrown
  ELSE IF parentType = "directory" /\ type = "chapter" THEN Thrown
  ELSE [ok |-> TRUE,
        elements |->
          <<Element(type, folderPath, folder.indexFile.fileInfo.frontmatter,
                    FileStats(folder.indexFile.gitMetadata),
                    below.elements)>>]

RECURSIVE ProcessElementFolder(_, _, _)
\* The children processElementFolder adds to the element of a folder, or
\* Thrown when a path does not parse or addChild refuses a child.
ProcessElementFolder(folder, parentType, basePath) ==
  Collected(
    [i \in 1..Len(folder.articles) |->
       ArticleElementOf(folder.articles[i], basePath)]
    \o [i \in 1..Len(folder.subfolders) |->
          FolderElementOf(
            folder.subfolders[i], FolderType(folder.subfolders[i]),
            ContentPathParse(basePath \o <<"/">>
                               \o folder.subfolders[i].name),
            parentType,
            ProcessElementFolder(folder.subfolders[i],
                                 FolderType(folder.subfolders[i]),
                                 basePath \o <<"/">>
                                   \o folder.subfolders[i].name))])

\* The ChapterElement of a folder directly under a locale.
TopElementOf(chapter, basePath) ==
  FolderElementOf(chapter, "chapter", ContentPathParse(basePath), "locale",
                  ProcessElementFolder(chapter, "chapter", basePath))

\* The LocaleElement of one scanned locale.
BuildLocaleElement(locale) ==
  LET localePath == ContentPathParse(locale.name)
      chapters ==
        Collected([i \in 1..Len(locale.chapters) |->
                     TopElementOf(locale.chapters[i],
                                  locale.name \o <<"/">>
                                    \o locale.chapters[i].name)])
  IN IF ~localePath.ok \/ ~chapters.ok THEN Thrown
     ELSE [ok |-> TRUE,
           element |->
             Element("locale", localePath,
                     locale.localeFile.fileInfo.frontmatter,
                     FileStats(locale.localeFile.gitMetadata),
                     chapters.elements)]

BuildElementTree(scannedRepo) ==
  LET locales == [i \in 1..Len(scannedRepo.locales) |->
                    BuildLocaleElement(scannedRepo.locales[i])]
  IN IF \E i \in 1..Len(locales) : ~locales[i].ok THEN Thrown
     ELSE [ok |-> TRUE,
           locales |-> [i \in 1..Len(locales) |-> locales[i].element]]

\* The frontmatter fields a projection copies: an undefined one leaves no
\* key in the JSON.
Copied(frontmatter, keys) ==
  [k \in keys \cap DOMAIN frontmatter |-> frontmatter[k]]

\* RepositoryElement.slug
ElementSlug(element) == ContentPathPath(element.path)

\* The fields every projection of an element starts from.
OwnMetadata(element, keys, slug) ==
  LET id == ULIDFrom(element.frontmatter.id)
  IN IF ~id.ok THEN Thrown
     ELSE [ok |-> TRUE,
           value |->
             [id |-> id.value, type |-> element.type,
              locale |-> element.path.locale, slug |-> slug,
              created_at |-> ToISOString(element.stats.createdAt),
              updated_at |-> ToISOString(element.stats.updatedAt)]
             @@ Copied(element.frontmatter, keys)]

LastSegment(element) == element.path.segments[Len(element.path.segments)]

\* sortChildren of a chapter or a directory: a copy sorted by Slug.compareTo
\* of the last path segments.
SortChildren(element) ==
  LET c == element.children
  IN SortedBy(c, [j \in 1..Len(c), i \in 1..Len(c) |->
                    SlugCompare(LastSegment(c[j]), LastSegment(c[i]))])

\* LocaleElement.sortChildren: by the first path segment.
SortLocaleChildren(element) ==
  LET c == element.children
  IN SortedBy(c, [j \in 1..Len(c), i \in 1..Len(c) |->
                    SlugCompare(c[j].path.segments[1], c[i].path.segments[1])])

\* A projection with the projections of the children added, Thrown when
\* any of them throws.
WithChildren(own, children) ==
  IF ~own.ok \/ \E i \in 1..Len(children) : ~children[i].ok THEN Thrown
  ELSE [ok |-> TRUE,
        value |-> [children |-> [i \in 1..Len(children) |->
                                   children[i].value]]
                    @@ own.value]

ProjectedKeys == {"title", "description", "cover_url"}

GenerateMetadataWithoutChildren(element) ==
  OwnMetadata(element, ProjectedKeys, ElementSlug(element))

RECURSIVE GenerateMetadataWithoutArticles(_)
GenerateMetadataWithoutArticles(element) ==
  LET chapterChildren == SelectSeq(SortChildren(element),
                                   LAMBDA child : child.type = "chapter")
  IN WithChildren(OwnMetadata(element, ProjectedKeys, ElementSlug(element)),
                  [i \in 1..Len(chapterChildren) |->
                     GenerateMetadataWithoutArticles(chapterChildren[i])])

RECURSIVE GenerateMetadata(_)
\* generateMetadata of an element of any class.
GenerateMetadata(element) ==
  CASE element.type = "article" ->
         OwnMetadata(element, ProjectedKeys, ElementSlug(element))
    [] element.type = "directory" ->
         LET sortedChildren == SortChildren(element)
         IN WithChildren(
              OwnMetadata(element, ProjectedKeys, ElementSlug(element)),
              [i \in 1..Len(sortedChildren) |->
                 GenerateMetadata(sortedChildren[i])])
    [] element.type = "chapter" ->
         LET sortedChildren == SortChildren(element)
         IN WithChildren(
              OwnMetadata(element, ProjectedKeys, ElementSlug(element)),
              [i \in 1..Len(sortedChildren) |->
                 IF sortedChildren[i].type = "chapter"
                   THEN GenerateMetadataWithoutChildren(sortedChildren[i])
                   ELSE GenerateMetadata(sortedChildren[i])])
    [] element.type = "locale" ->
         LET sortedChildren == SortLocaleChildren(element)
         IN WithChildren(
              OwnMetadata(element, ProjectedKeys \cup {"aliases"}, <<>>),
              [i \in 1..Len(sortedChildren) |->
                 GenerateMetadataWithoutArticles(sortedChildren[i])])

ValidationError(code, element) ==
  [code |-> code, path |-> ContentPathToString(element.path),
   severity |-> "error"]

RECURSIVE Validate(_)
\* validate() of an element of any class: its own errors, then its
\* children's.
Validate(element) ==
  LET type == FmType(element.frontmatter)
      own ==
        CASE element.type = "article" ->
               IF type \notin {"undefined", "article"}
                 THEN <<ValidationError("INVALID_TYPE", element)>> ELSE <<>>
          [] element.type = "directory" ->
               (IF type # "directory"
                  THEN <<ValidationError("INVALID_TYPE", element)>>
                  ELSE <<>>)
               \o (IF \E i \in 1..Len(element.children) :
                        element.children[i].type = "chapter"
                     THEN <<ValidationError("DIRECTORY_CONTAINS_CHAPTER",
                                            element)>>
                     ELSE <<>>)
          [] element.type = "chapter" ->
               IF type # "chapter"
                 THEN <<ValidationError("INVALID_TYPE", element)>> ELSE <<>>
          [] element.type = "locale" ->
               (IF type # "locale"
                  THEN <<ValidationError("INVALID_TYPE", element)>>
                  ELSE <<>>)
               \o (IF ~IsValidLocale(element.path.locale)
                     THEN <<ValidationError("INVALID_LOCALE_FORMAT",
                                            element)>>
                     ELSE <<>>)
  IN own \o Flatten([i \in 1..Len(element.children) |->
                       Validate(element.children[i])])

RECURSIVE Descendants(_)
\* An element and every element below it.
Descendants(element) ==
  {element} \cup UNION {Descendants(element.children[i]) :
                          i \in 1..Len(element.children)}

(***************************************************************************)
(* A run: scan, then derive.  The generation tasks run concurrently: each  *)
(* is a step up to the await of its reads or writes, and every write lands *)
(* on its own.                                                             *)
(***************************************************************************)
LocaleTask(locale) ==
  [kind |-> "locale", locale |-> locale, at |-> "build", pending |-> {}]

FolderTask(folder, locale, parentSlug) ==
  [kind |-> "folder", folder |-> folder, locale |-> locale,
   parentSlug |-> parentSlug, at |-> "read", pending |-> {}]

RECURSIVE SeqToBag(_)
SeqToBag(s) ==
  IF Len(s) = 0 THEN EmptyBag ELSE SetToBag({Head(s)}) (+) SeqToBag(Tail(s))

One(t) == SetToBag({t})

Init ==
  /\ cmpArgs = <<>>
  /\ cmpRes = NoCmp
  /\ slugIn = <<>>
  /\ slugOut = NoSlug
  /\ fs \in {Checkout(shape) : shape \in Shapes}
  /\ pc = "start"
  /\ scanned = <<>>
  /\ tasks = EmptyBag
  /\ disk = <<>>
  /\ written = <<>>
  /\ firstRun = [done |-> FALSE]
  /\ failed = FALSE
  /\ localeIndices = <<>>
  /\ folderIndices = <<>>
  /\ tree = [done |-> FALSE]
  /\ projected = [done |-> FALSE]
  /\ errors = [done |-> FALSE]
  /\ warnings = {}
  /\ pipeIn = <<>>
  /\ pipeOut = [done |-> FALSE]
  /\ changes = <<>>
  /\ jobs = <<>>
  /\ updatedFiles = {}
  /\ initially = <<>>

ScanRepository ==
  /\ pc = "start"
  /\ scanned' = ScanRepositoryOf(fs)
  /\ warnings' = ScanWarnings(fs)
  /\ pc' = "scanned"
  /\ UNCHANGED <<ordVars, pipeVars, updVars, fs, genVars, treeVars>>

\* generateMetadataFiles up to the Promise.all over the locales:
\* locales.json is written, then one task per locale is started.
StartGeneration ==
  /\ pc \in {"scanned", "regenerate"}
  /\ pc' = "generating"
  /\ localeIndices' = <<>>
  /\ folderIndices' = <<>>
  /\ LET locales == GenerateLocalesJson(scanned)
         file == FileAt(<<>>, "locales.json")
     IN IF locales.ok
          THEN /\ disk' = JsonFileWriterWrite(disk, file, locales.content)
               /\ written' = JsonFileWriterWrite(<<>>, file,
                                                 locales.content)
               /\ tasks' = SeqToBag([i \in 1..Len(scanned.locales) |->
                                       LocaleTask(scanned.locales[i])])
               /\ failed' = FALSE
          ELSE /\ written' = <<>>
               /\ tasks' = EmptyBag
               /\ failed' = TRUE
               /\ UNCHANGED disk
  /\ UNCHANGED <<ordVars, warnings, pipeVars, updVars, fs, scanned, firstRun,
                 treeVars>>

\* generateLocaleIndices up to its two writes.
GenerateLocaleIndices(t) ==
  /\ pc = "generating"
  /\ BagIn(t, tasks)
  /\ t.kind = "locale" /\ t.at = "build"
  /\ IF BuildLocaleIndices(t.locale).ok
       THEN /\ tasks' = (tasks (-) One(t))
                          (+) One([t EXCEPT !.at = "write",
                                            !.pending = {"full", "shallow"}])
            /\ UNCHANGED failed
       ELSE /\ tasks' = tasks (-) One(t)
            /\ failed' = TRUE
  /\ UNCHANGED <<ordVars, warnings, pipeVars, updVars, fs, pc, scanned, disk,
                 written, firstRun,
                 localeIndices, folderIndices, treeVars>>

\* generateFolderIndices up to its three writes.
GenerateFolderIndices(t) ==
  /\ pc = "generating"
  /\ BagIn(t, tasks)
  /\ t.kind = "folder" /\ t.at = "read"
  /\ IF FolderArtifacts(fs, t.folder, t.locale, t.parentSlug).ok
       THEN /\ tasks' = (tasks (-) One(t))
                          (+) One([t EXCEPT !.at = "write",
                                            !.pending = {"ancestors",
                                                         "shallow", "full"}])
            /\ UNCHANGED failed
       ELSE /\ tasks' = tasks (-) One(t)
            /\ failed' = TRUE
  /\ UNCHANGED <<ordVars, warnings, pipeVars, updVars, fs, pc, scanned, disk,
                 written, firstRun,
                 localeIndices, folderIndices, treeVars>>

TaskDir(t) ==
  IF t.kind = "locale" THEN t.locale.relativePath ELSE t.folder.relativePath

TaskContent(t, which) ==
  IF t.kind = "locale"
    THEN IF which = "full" THEN BuildLocaleIndices(t.locale).full
         ELSE BuildLocaleIndices(t.locale).shallow
  ELSE LET a == FolderArtifacts(fs, t.folder, t.locale, t.parentSlug)
       IN CASE which = "full" -> a.full
            [] which = "shallow" -> a.shallow
            [] which = "ancestors" -> a.ancestors

\* The tasks a task starts once its writes are done.
Started(t) ==
  IF t.kind = "locale"
    THEN SeqToBag([i \in 1..Len(t.locale.chapters) |->
                     FolderTask(t.locale.chapters[i], t.locale.name, <<>>)])
  ELSE SeqToBag([i \in 1..Len(t.folder.subfolders) |->
                   FolderTask(t.folder.subfolders[i], t.locale,
                              Append(t.parentSlug, t.folder.name))])

\* One write of a task lands; after the last one the task records its
\* files and starts the tasks of its sub-folders.
CompleteWrite(t, which) ==
  /\ pc = "generating"
  /\ BagIn(t, tasks)
  /\ t.at = "write" /\ which \in t.pending
  /\ LET file == FileAt(TaskDir(t), ArtifactName(which))
         content == TaskContent(t, which)
         dir == TaskDir(t)
     IN /\ disk' = JsonFileWriterWrite(disk, file, content)
        /\ written' = JsonFileWriterWrite(written, file, content)
        /\ IF t.pending = {which}
             THEN /\ tasks' = (tasks (-) One(t)) (+) Started(t)
                  /\ IF t.kind = "locale"
                       THEN /\ localeIndices' =
                                 (t.locale.name :>
                                    [full |-> FileAt(dir, "index.full.json"),
                                     shallow |->
                                       FileAt(dir, "index.shallow.json")])
                                 @@ localeIndices
                            /\ UNCHANGED folderIndices
                       ELSE /\ folderIndices' =
                                 (Join(Append(t.parentSlug, t.folder.name),
                                       "/") :>
                                    [full |-> FileAt(dir, "index.full.json"),
                                     shallow |->
                                       FileAt(dir, "index.shallow.json"),
                                     ancestors |->
                                       FileAt(dir, "ancestors.json")])
                                 @@ folderIndices
                            /\ UNCHANGED localeIndices
             ELSE /\ tasks' = (tasks (-) One(t))
                                (+) One([t EXCEPT !.pending = @ \ {which}])
                  /\ UNCHANGED <<localeIndices, folderIndices>>
  /\ UNCHANGED <<ordVars, warnings, pipeVars, updVars, fs, pc, scanned,
                 firstRun, failed, treeVars>>

\* Every task of the run has finished.
FinishGeneration ==
  /\ pc = "generating"
  /\ tasks = EmptyBag
  /\ IF firstRun.done
       THEN pc' = "done" /\ UNCHANGED firstRun
       ELSE /\ pc' = "regenerate"
            /\ firstRun' = [done |-> TRUE, written |-> written,
                            disk |-> disk, failed |-> failed]
  /\ UNCHANGED <<ordVars, warnings, pipeVars, updVars, fs, scanned, tasks,
                 disk, written, failed,
                 localeIndices, folderIndices, treeVars>>

\* buildElementTree of the scanned repository.
BuildTree ==
  /\ pc = "scanned"
  /\ pc' = "tree"
  /\ tree' = [done |-> TRUE] @@ BuildElementTree(scanned)
  /\ UNCHANGED <<ordVars, warnings, pipeVars, updVars, fs, scanned, genVars,
                 projected, errors>>

\* The elements of the tree that was built.
TreeElements ==
  IF tree.done /\ tree.ok
    THEN UNION {Descendants(tree.locales[i]) : i \in 1..Len(tree.locales)}
    ELSE {}

\* generateMetadata of one element of the tree.
ProjectElement(element) ==
  /\ pc = "tree"
  /\ element \in TreeElements
  /\ pc' = "projected"
  /\ projected' = [done |-> TRUE, element |-> element]
                     @@ GenerateMetadata(element)
  /\ UNCHANGED <<ordVars, warnings, pipeVars, updVars, fs, scanned, genVars,
                 tree, errors>>

\* validate of every locale element of the tree.
ValidateTree ==
  /\ pc = "tree"
  /\ tree.ok
  /\ pc' = "validated"
  /\ errors' = [done |-> TRUE,
                list |-> Flatten([i \in 1..Len(tree.locales) |->
                                    Validate(tree.locales[i])])]
  /\ UNCHANGED <<ordVars, warnings, pipeVars, updVars, fs, scanned, genVars,
                 tree, projected>>

Next ==
  \/ ScanRepository
  \/ BuildTree
  \/ \E element \in TreeElements : ProjectElement(element)
  \/ ValidateTree
  \/ StartGeneration
  \/ \E t \in BagToSet(tasks) : GenerateLocaleIndices(t)
  \/ \E t \in BagToSet(tasks) : GenerateFolderIndices(t)
  \/ \E t \in BagToSet(tasks), which \in {"full", "shallow", "ancestors"} :
       CompleteWrite(t, which)
  \/ FinishGeneration

Spec == Init /\ [][Next]_vars

(***************************************************************************)
(* Checkouts with folders and articles of every kind of name, for the      *)
(* scan, the element tree and its validation.                              *)
(***************************************************************************)
Basics == <<"b", "a", "s", "i", "c", "s">>
DigitsOnly == <<"1", "-", "x">>
Intro == <<"i", "n", "t", "r", "o">>

\* One folder of the checkout is named, typed and placed by the shape:
\* directly under the locale or inside a well-named chapter, with or
\* without index.md, holding one article.
NamingShapes ==
  [name : {Basics, DigitsOnly, SubName},
   kind : {"chapter", "directory"},
   hasIndex : BOOLEAN,
   atTop : BOOLEAN,
   article : {FirstArticle, Intro}]

NamedDir(shape) ==
  DirEntry(shape.name,
           IF shape.hasIndex THEN MdFile(FolderFm(2, shape.kind), "sha-index")
           ELSE NoFile,
           <<FileEntry(shape.article \o MdExt,
                       MdFile(ArticleFm(12, TRUE), "sha-article"))>>)

NamingCheckout(shape) ==
  <<LocaleEntry(EnUS, MdFile(LocaleFm(8), "sha-locale"),
      IF shape.atTop THEN <<NamedDir(shape)>>
      ELSE <<DirEntry(TopName, MdFile(FolderFm(1, "chapter"), "sha-index"),
               <<FileEntry(FirstArticle \o MdExt,
                           MdFile(ArticleFm(11, TRUE), "sha-article")),
                 NamedDir(shape)>>)>>)>>

InitNaming ==
  /\ cmpArgs = <<>>
  /\ cmpRes = NoCmp
  /\ slugIn = <<>>
  /\ slugOut = NoSlug
  /\ fs \in {NamingCheckout(shape) : shape \in NamingShapes}
  /\ pc = "start"
  /\ scanned = <<>>
  /\ tasks = EmptyBag
  /\ disk = <<>>
  /\ written = <<>>
  /\ firstRun = [done |-> FALSE]
  /\ failed = FALSE
  /\ localeIndices = <<>>
  /\ folderIndices = <<>>
  /\ tree = [done |-> FALSE]
  /\ projected = [done |-> FALSE]
  /\ errors = [done |-> FALSE]
  /\ warnings = {}
  /\ pipeIn = <<>>
  /\ pipeOut = [done |-> FALSE]
  /\ changes = <<>>
  /\ jobs = <<>>
  /\ updatedFiles = {}
  /\ initially = <<>>

NextNaming ==
  \/ ScanRepository
  \/ BuildTree
  \/ \E element \in TreeElements : ProjectElement(element)
  \/ ValidateTree

SpecNaming == InitNaming /\ [][NextNaming]_vars

(***************************************************************************)
(* The validators and the ValidationPipeline.  A description, when         *)
(* present, is a record that tells its JavaScript type.                    *)
(***************************************************************************)
Diagnostic(code, path) == [code |-> code, path |-> path, severity |-> "error"]

\* !frontmatter.title || typeof frontmatter.title !== "string": every title
\* of the model is a non-empty text.
TitleMissing(frontmatter) == "title" \notin DOMAIN frontmatter

\* frontmatter.description && typeof frontmatter.description !== "string"
DescriptionNotString(frontmatter) ==
  /\ "description" \in DOMAIN frontmatter
  /\ "string" \notin DOMAIN frontmatter.description

\* The checks every validate<Kind> of the FrontmatterValidator makes, as
\* the errors they yield for the places they are made at.
FrontmatterChecks(element, typeWrong) ==
  LET path == ContentPathToString(element.path)
      type == IF typeWrong
                THEN <<Diagnostic("INVALID_FRONTMATTER_TYPE", path)>>
                ELSE <<>>
      title == IF TitleMissing(element.frontmatter)
                 THEN <<Diagnostic("MISSING_REQUIRED_FIELD", path)>>
                 ELSE <<>>
      description == IF DescriptionNotString(element.frontmatter)
                       THEN <<Diagnostic("INVALID_FIELD_TYPE", path)>>
                       ELSE <<>>
  IN [type |-> type, title |-> title, description |-> description]

\* FrontmatterValidator.validate
FrontmatterValidate(element) ==
  LET type == FmType(element.frontmatter)
      c == FrontmatterChecks(
             element,
             IF element.type = "article"
               THEN type \notin {"undefined", "article"}
               ELSE type # element.type)
  IN CASE element.type = "locale" ->
            c.type \o c.title \o c.description \o c.title \o c.description
       [] element.type = "article" ->
            c.type \o c.title \o c.description \o c.description
       [] OTHER -> c.type \o c.title \o c.description

\* "--" occurs in the name.
HasDoubleHyphen(name) ==
  \E i \in 1..(Len(name) - 1) : name[i] = "-" /\ name[i + 1] = "-"

\* What FileNameValidator.validate yields for the segment at position i.
SegmentDiagnostics(element, i) ==
  LET fullSlug == SlugFull(element.path.segments[i])
      path == Join(SubSeq(ContentPathPath(element.path), 1, i), "/")
      error == <<Diagnostic("INVALID_FILE_NAME", path)>>
  IN IF SlugSplit(fullSlug) = {} THEN error
     ELSE LET j == CHOOSE j \in SlugSplit(fullSlug) : TRUE
              name == SubSeq(fullSlug, j + 1, Len(fullSlug))
          IN (IF ~AllIn(name, NameChars) THEN error ELSE <<>>)
             \o (IF name[1] = "-" \/ name[Len(name)] = "-"
                   THEN error ELSE <<>>)
             \o (IF HasDoubleHyphen(name) THEN error ELSE <<>>)

\* FileNameValidator.validate
FileNameValidate(element) ==
  (IF ~IsValidLocale(element.path.locale)
     THEN <<Diagnostic("INVALID_FILE_NAME",
                       ContentPathToString(element.path))>>
     ELSE <<>>)
  \o Flatten([i \in 1..Len(element.path.segments) |->
                SegmentDiagnostics(element, i)])

\* HierarchyValidator.validate
HierarchyValidate(element) ==
  LET error == <<Diagnostic("INVALID_HIERARCHY",
                            ContentPathToString(element.path))>>
      children == element.children
  IN CASE element.type = "locale" ->
            Flatten([i \in 1..Len(children) |->
                       IF children[i].type # "chapter" THEN error ELSE <<>>])
       [] element.type = "directory" ->
            Flatten([i \in 1..Len(children) |->
                       IF children[i].type = "chapter" THEN error ELSE <<>>])
       [] OTHER -> <<>>

\* RepositoryElement.id: ULID.from(this.frontmatter.id), which throws for
\* an id that is missing or malformed.
ElementId(element) ==
  IF "id" \notin DOMAIN element.frontmatter THEN Thrown
  ELSE ULIDFrom(element.frontmatter.id)

\* Validator.validateBatch of the FrontmatterValidator.
FrontmatterValidateBatch(elements) ==
  Flatten([i \in 1..Len(elements) |-> FrontmatterValidate(elements[i])])

\* Validator.validateBatch of the FileNameValidator.
FileNameValidateBatch(elements) ==
  Flatten([i \in 1..Len(elements) |-> FileNameValidate(elements[i])])

\* elementMap.get(path): the last element of the batch with the path, NoDir
\* when there is none.
ElementAt(elements, path) ==
  LET at == {i \in 1..Len(elements) :
               ContentPathPath(elements[i].path) = path}
  IN IF at = {} THEN NoDir
     ELSE elements[CHOOSE i \in at : \A j \in at : j <= i]

\* What HierarchyValidator.validateBatch yields for one element of the
\* batch.
ParentDiagnostics(elements, element) ==
  LET path == ContentPathPath(element.path)
      parentPath == SubSeq(path, 1, Len(path) - 1)
      parent == ElementAt(elements, parentPath)
  IN IF Len(element.path.segments) = 0 \/ parent = NoDir THEN <<>>
     ELSE (IF parent.type = "directory" /\ element.type = "chapter"
             THEN <<Diagnostic("INVALID_HIERARCHY", Join(path, "/"))>>
             ELSE <<>>)
          \o (IF parent.type = "article"
                THEN <<Diagnostic("INVALID_HIERARCHY",
                                  Join(parentPath, "/"))>>
                ELSE <<>>)
          \o (IF parent.type = "locale" /\ element.type # "chapter"
                THEN <<Diagnostic("INVALID_HIERARCHY", Join(path, "/"))>>
                ELSE <<>>)

\* HierarchyValidator.validateBatch: the generator of the base class is
\* made and returned, never iterated, so validate is run for no element.
HierarchyValidateBatch(elements) ==
  Flatten([i \in 1..Len(elements) |->
             ParentDiagnostics(elements, elements[i])])

\* The paths the idMap of the DuplicateIdValidator holds for an id.
PathsOf(elements, id) ==
  LET same == SelectSeq(elements, LAMBDA e : ElementId(e).value = id)
  IN [k \in 1..Len(same) |-> ContentPathToString(same[k].path)]

DuplicateDiagnostics(id, paths) ==
  [k \in 1..Len(paths) |->
     [message |-> [id |-> id, paths |-> paths]]
       @@ Diagnostic("DUPLICATE_ID", paths[k])]

\* DuplicateIdValidator.validateBatch
DuplicateIdValidateBatch(elements) ==
  IF \E i \in 1..Len(elements) : ~ElementId(elements[i]).ok THEN Thrown
  ELSE
    [ok |-> TRUE,
     list |->
       Flatten([i \in 1..Len(elements) |->
         IF \E j \in 1..(i - 1) :
              ElementId(elements[j]) = ElementId(elements[i])
           THEN <<>>
         ELSE IF Len(PathsOf(elements, ElementId(elements[i]).value)) > 1
           THEN DuplicateDiagnostics(
                  ElementId(elements[i]).value,
                  PathsOf(elements, ElementId(elements[i]).value))
         ELSE <<>>])]

ValidatorNames == <<"frontmatter", "fileName", "hierarchy", "duplicateId">>

\* ValidationPipeline.createValidators
CreateValidators(options) ==
  SelectSeq(ValidatorNames, LAMBDA name : options.enabledValidators[name])

\* validator.validate(element), spread into an array.
RunValidate(name, element) ==
  [ok |-> TRUE,
   list |-> CASE name = "frontmatter" -> FrontmatterValidate(element)
              [] name = "fileName" -> FileNameValidate(element)
              [] name = "hierarchy" -> HierarchyValidate(element)
              [] name = "duplicateId" -> <<>>]

\* validator.validateBatch(elements), spread into an array.
RunValidateBatch(name, elements) ==
  CASE name = "frontmatter" ->
         [ok |-> TRUE, list |-> FrontmatterValidateBatch(elements)]
    [] name = "fileName" ->
         [ok |-> TRUE, list |-> FileNameValidateBatch(elements)]
    [] name = "hierarchy" ->
         [ok |-> TRUE, list |-> HierarchyValidateBatch(elements)]
    [] name = "duplicateId" -> DuplicateIdValidateBatch(elements)

RECURSIVE CollectFrom(_, _, _, _)
\* The loop over the validators: results[i] is what spreading the i-th
\* validator's generator gives, looked at only when the loop gets there.
CollectFrom(results, maxErrors, i, collected) ==
  IF i > Len(results) THEN [ok |-> TRUE, errors |-> collected]
  ELSE IF ~results[i].ok THEN Thrown
  ELSE IF maxErrors > 0 /\ Len(collected \o results[i].list) >= maxErrors
    THEN [ok |-> TRUE, errors |-> collected \o results[i].list]
  ELSE CollectFrom(results, maxErrors, i + 1, collected \o results[i].list)

Checked(elements) ==
  [locales |-> Len(SelectSeq(elements, LAMBDA e : e.type = "locale")),
   chapters |-> Len(SelectSeq(elements, LAMBDA e : e.type = "chapter")),
   directories |-> Len(SelectSeq(elements, LAMBDA e : e.type = "directory")),
   articles |-> Len(SelectSeq(elements, LAMBDA e : e.type = "article"))]

ValidationResult(collected, checked) ==
  IF ~collected.ok THEN Thrown
  ELSE [ok |-> TRUE, errors |-> collected.errors, warnings |-> <<>>,
        infos |-> <<>>, stats |-> [checked |-> checked]]

\* ValidationPipeline.validate
PipelineValidate(element, options) ==
  LET validators == CreateValidators(options)
  IN ValidationResult(
       CollectFrom([i \in 1..Len(validators) |->
                      RunValidate(validators[i], element)],
                   options.maxErrors, 1, <<>>),
       Checked(<<>>))

\* ValidationPipeline.validateBatch
PipelineValidateBatch(elements, options) ==
  LET validators == CreateValidators(options)
  IN ValidationResult(
       CollectFrom([i \in 1..Len(validators) |->
                      RunValidateBatch(validators[i], elements)],
                   options.maxErrors, 1, <<>>),
       Checked(elements))

(***************************************************************************)
(* The elements and the options the pipeline is run on.                    *)
(***************************************************************************)
Malformed == Len(Crockford)   \* an id whose spelling is no ULID

\* What varies in the frontmatter of an element: its id (missing, given or
\* malformed) and its title.
Identified(ids) == {[hasId |-> TRUE, id |-> n, titled |-> TRUE] : n \in ids}

Untitled == [hasId |-> TRUE, id |-> 1, titled |-> FALSE]

Unidentified == [hasId |-> FALSE, id |-> 0, titled |-> TRUE]

VariantFm(variant, type) ==
  (IF variant.hasId THEN [id |-> variant.id] ELSE <<>>)
    @@ (IF variant.titled THEN [title |-> type] ELSE <<>>)
    @@ [type |-> type]

NoStats == FileStats(GitMetadata(MdFile(<<>>, "sha")))

PipeElement(type, pathText, variant) ==
  Element(type, ContentPathParse(pathText), VariantFm(variant, type),
          NoStats, <<>>)

Slash(parts) == Join(parts, "/")

\* getChildren returns the children array itself, so a caller can push an
\* element onto it without addChild looking at its kind.
GetChildrenPush(element, child) ==
  [element EXCEPT !.children = Append(@, child)]

\* A batch: at most one element at each of four places, two of them in
\* different locales and two nested in the third.
Batches ==
  LET At(type, path, variants) ==
        {<<>>} \cup {<<PipeElement(type, Slash(path), v)>> : v \in variants}
  IN {a \o b \o c \o d :
        a \in At("chapter", <<UkUA, TopName>>, Identified(1..MaxIds)),
        b \in At("chapter", <<EnUS, TopName>>,
                 Identified((1..MaxIds) \cup {Malformed})
                   \cup {Untitled, Unidentified}),
        c \in At("directory", <<EnUS, TopName, SubName>>,
                 Identified(1..MaxIds) \cup {Untitled})
               \cup {<<GetChildrenPush(
                         PipeElement("directory",
                                     Slash(<<EnUS, TopName, SubName>>),
                                     [hasId |-> TRUE, id |-> 1,
                                      titled |-> TRUE]),
                         PipeElement("chapter",
                                     Slash(<<EnUS, TopName, SubName,
                                             SecondArticle>>),
                                     [hasId |-> TRUE, id |-> MaxIds,
                                      titled |-> TRUE]))>>},
        d \in At("article", <<EnUS, TopName, SubName, SecondArticle>>,
                 Identified(1..MaxIds) \cup {Unidentified})
               \cup At("chapter", <<EnUS, TopName, SubName, SecondArticle>>,
                       Identified(1..MaxIds) \cup {Unidentified})}

HyphenName == <<"1", "a", "-", "-", "x">>

\* The elements validate is called with one at a time.
Singles ==
  {batch[1] : batch \in {b \in Batches : Len(b) = 1}}
    \cup {PipeElement("locale", EnUS, v) : v \in {Untitled, Unidentified}}
    \cup {PipeElement("article", Slash(<<EnUS, TopName, HyphenName>>),
                      Untitled)}
    \cup {[PipeElement("article", Slash(<<EnUS, TopName, SecondArticle>>),
                       Untitled)
            EXCEPT !.frontmatter = [description |-> [number |-> 5]] @@ @]}

PipelineOptions ==
  [enabledValidators :
     [{ValidatorNames[i] : i \in 1..Len(ValidatorNames)} -> BOOLEAN],
   strictMode : {FALSE},
   maxErrors : 0..MaxErrors]

InitPipeline ==
  /\ cmpArgs = <<>>
  /\ cmpRes = NoCmp
  /\ slugIn = <<>>
  /\ slugOut = NoSlug
  /\ fs = <<>>
  /\ pc = "pipeline"
  /\ scanned = <<>>
  /\ tasks = EmptyBag
  /\ disk = <<>>
  /\ written = <<>>
  /\ firstRun = [done |-> FALSE]
  /\ failed = FALSE
  /\ localeIndices = <<>>
  /\ folderIndices = <<>>
  /\ tree = [done |-> FALSE]
  /\ projected = [done |-> FALSE]
  /\ errors = [done |-> FALSE]
  /\ warnings = {}
  /\ pipeIn \in [mode : {"validate"}, elements : {<<e>> : e \in Singles},
                  options : PipelineOptions]
                 \cup [mode : {"validateBatch"}, elements : Batches,
                       options : PipelineOptions]
  /\ pipeOut = [done |-> FALSE]
  /\ changes = <<>>
  /\ jobs = <<>>
  /\ updatedFiles = {}
  /\ initially = <<>>

CallValidate ==
  /\ pc = "pipeline"
  /\ pipeIn.mode = "validate"
  /\ pc' = "returned"
  /\ pipeOut' = [done |-> TRUE]
                  @@ PipelineValidate(pipeIn.elements[1], pipeIn.options)
  /\ UNCHANGED <<ordVars, warnings, pipeIn, updVars, fs, scanned, genVars,
                 treeVars>>

CallValidateBatch ==
  /\ pc = "pipeline"
  /\ pipeIn.mode = "validateBatch"
  /\ pc' = "returned"
  /\ pipeOut' = [done |-> TRUE]
                  @@ PipelineValidateBatch(pipeIn.elements, pipeIn.options)
  /\ UNCHANGED <<ordVars, warnings, pipeIn, updVars, fs, scanned, genVars,
                 treeVars>>

NextPipeline == CallValidate \/ CallValidateBatch

SpecPipeline == InitPipeline /\ [][NextPipeline]_vars

(***************************************************************************)
(* ChangeDetector.                                                         *)
(***************************************************************************)
\* parseContentPath: the content type, the locale and the slug of a changed
\* path, no field at all for a path that is not under a locale.
ParseContentPath(relativePath) ==
  IF Len(relativePath) < 2 \/ ~IsValidLocale(relativePath[1]) THEN <<>>
  ELSE
    LET fileName == Last(relativePath)
        between == SubSeq(relativePath, 2, Len(relativePath) - 1)
        articleName == SubSeq(fileName, 1, Len(fileName) - Len(MdExt))
    IN [locale |-> relativePath[1]]
         @@ (IF fileName = LocaleMd
               THEN [contentType |-> "locale", slug |-> <<>>]
             ELSE IF fileName = IndexMd
               THEN [contentType |-> "chapter", slug |-> between]
             ELSE IF EndsWith(fileName, MdExt)
               THEN [contentType |-> "article",
                     slug |-> Append(between, articleName)]
             ELSE [slug |-> <<>>])

NoChange == [changeType |-> "none"]

\* statusCode.startsWith('R'), for the codes that occur.
IsRename(statusCode) == statusCode \in {"R100", "R090"}

\* parseFileChange; parts are the paths of a line of the diff, and the
\* repository root is the empty prefix of every path.
ParseFileChange(statusCode, parts) ==
  LET changeType == CASE statusCode = "A" -> "added"
                      [] statusCode = "M" -> "modified"
                      [] statusCode = "D" -> "deleted"
                      [] IsRename(statusCode) -> "renamed"
                      [] OTHER -> "none"
      filePath == IF changeType = "renamed" THEN parts[2] ELSE parts[1]
  IN IF changeType = "none" THEN NoChange
     ELSE (IF changeType = "renamed" THEN [oldPath |-> parts[1]] ELSE <<>>)
            @@ [changeType |-> changeType, filePath |-> filePath,
                relativePath |-> filePath]
            @@ ParseContentPath(filePath)

\* detectChanges: the changes of the markdown files of the lines of
\* 'git diff --name-status'.
DetectChanges(lines) ==
  LET markdown == SelectSeq(lines,
                    LAMBDA line : EndsWith(Last(line.parts[1]), MdExt))
      parsed == [i \in 1..Len(markdown) |->
                   ParseFileChange(markdown[i].statusCode, markdown[i].parts)]
  IN SelectSeq(parsed, LAMBDA change : change # NoChange)

(***************************************************************************)
(* IncrementalMetadataUpdaterService.                                      *)
(***************************************************************************)
\* change.locale is set
HasLocale(change) == "locale" \in DOMAIN change

\* LocaleChangeGrouper.groupByLocale, the groups one after another in the
\* order of the Map: the order in which the locales first occur.
GroupByLocale(files) ==
  LET located == SelectSeq(files, HasLocale)
      FirstOf(locale) ==
        CHOOSE i \in 1..Len(located) :
          /\ located[i].locale = locale
          /\ \A k \in 1..(i - 1) : located[k].locale # locale
      group == [i \in 1..Len(located) |-> FirstOf(located[i].locale)]
  IN SortedBy(located, [j \in 1..Len(located), i \in 1..Len(located) |->
                          group[j] - group[i]])

\* change.status === 'removed'
IsRemoved(change) == "status" \in DOMAIN change /\ change.status = "removed"

\* JsonFileWriter.read: null when the file cannot be read.
JsonFileWriterRead(files, file) ==
  IF file \in DOMAIN files THEN [found |-> TRUE, data |-> files[file]]
  ELSE [found |-> FALSE]

\* path.dirname
Dirname(file) == SubSeq(file, 1, Len(file) - 1)

\* The markdown file of the checkout at a path, NoFile when there is none.
LoadLocalFile(root, file) ==
  LET dir == IF Len(file) < 2 THEN NoDir ELSE DirAt(root, Dirname(file))
      name == Last(file)
      named == IF dir = NoDir THEN <<>>
               ELSE SelectSeq(dir.entries,
                      LAMBDA entry : IsFile(entry) /\ entry.name = name)
  IN IF dir = NoDir THEN NoFile
     ELSE IF name = LocaleMd
       THEN IF "localeMd" \in DOMAIN dir THEN dir.localeMd ELSE NoFile
     ELSE IF name = IndexMd THEN dir.index
     ELSE IF Len(named) = 0 THEN NoFile
     ELSE named[1].md

HasChildren(metadata) == "children" \in DOMAIN metadata

\* Array.prototype.findIndex on the last slug segment, 0 for -1.
FindIndex(children, articleName) ==
  LET found == {i \in 1..Len(children) :
                  Last(children[i].slug) = articleName}
  IN IF found = {} THEN 0
     ELSE CHOOSE i \in found : \A k \in found : i <= k

\* children[index] = metadata, or children.push(metadata)
Upsert(children, index, metadata) ==
  IF index > 0 THEN [children EXCEPT ![index] = metadata]
  ELSE Append(children, metadata)

Skipped == [kind |-> "skipped"]
Rejected == [kind |-> "thrown"]
Writes(out) == [kind |-> "write", out |-> out]

\* updateLocaleMetadata after locales.json was read.
UpdateLocaleMetadataOf(change, localesJson, root) ==
  IF ~localesJson.found THEN Skipped
  ELSE IF IsRemoved(change)
    THEN Writes("locales" :>
                  SelectSeq(localesJson.data,
                            LAMBDA l : l.locale # change.locale))
  ELSE
    LET localeFile == LoadLocalFile(root, change.file)
        localeMetadata == BuildMetadata(localeFile.frontmatter,
                                        GitMetadata(localeFile),
                                        change.locale, <<>>)
        found == {i \in 1..Len(localesJson.data) :
                    localesJson.data[i].locale = change.locale}
        index == IF found = {} THEN 0
                 ELSE CHOOSE i \in found : \A k \in found : i <= k
    IN IF ~localeFile.exists THEN Rejected
       ELSE Writes("locales" :>
                     Upsert(localesJson.data, index, localeMetadata))

\* updateFolderMetadata after the two artifacts and index.md were read.
UpdateFolderMetadataOf(change, fullMetadata, shallowMetadata, root) ==
  LET indexFile == LoadLocalFile(root, Append(Dirname(change.file), IndexMd))
      updatedMetadata == BuildMetadata(indexFile.frontmatter,
                                       GitMetadata(indexFile), change.locale,
                                       shallowMetadata.data.slug)
      updatedFull == IF HasChildren(fullMetadata.data)
                       THEN [children |-> fullMetadata.data.children]
                              @@ updatedMetadata
                     ELSE updatedMetadata
  IN IF ~indexFile.exists THEN Rejected
     ELSE IF ~fullMetadata.found \/ ~shallowMetadata.found THEN Skipped
     ELSE Writes("shallow" :> updatedMetadata @@ "full" :> updatedFull)

\* updateArticleMetadata after the two artifacts were read.
UpdateArticleMetadataOf(change, fullMetadata, shallowMetadata, root) ==
  LET articleName == Basename(change.file, MdExt)
      articleFile == LoadLocalFile(root, change.file)
      Kept(children) ==
        SelectSeq(children, LAMBDA child : Last(child.slug) # articleName)
      articleMetadata ==
        BuildMetadata(articleFile.frontmatter, GitMetadata(articleFile),
                      change.locale,
                      Append(shallowMetadata.data.slug, articleName))
      Put(children) ==
        FractionalIndexSorterSort(
          Upsert(children, FindIndex(children, articleName),
                 articleMetadata))
  IN IF ~fullMetadata.found \/ ~shallowMetadata.found THEN Skipped
     ELSE IF IsRemoved(change)
       THEN IF ~HasChildren(fullMetadata.data)
                 \/ ~HasChildren(shallowMetadata.data)
              THEN Rejected
            ELSE Writes(
                   "full" :> [fullMetadata.data EXCEPT
                                !.children = Kept(@)]
                   @@ "shallow" :> [shallowMetadata.data EXCEPT
                                      !.children = Kept(@)])
     ELSE IF ~articleFile.exists THEN Rejected
     ELSE IF ~HasChildren(fullMetadata.data)
               \/ ~HasChildren(shallowMetadata.data)
       THEN Rejected
     ELSE Writes(
            "full" :> [fullMetadata.data EXCEPT !.children = Put(@)]
            @@ "shallow" :> [shallowMetadata.data EXCEPT
                               !.children = Put(@)])

\* The artifact a handler reads or writes for a change.
ArtifactOf(change, which) ==
  IF which = "locales" THEN FileAt(<<>>, "locales.json")
  ELSE FileAt(Dirname(change.file), ArtifactName(which))

NewJob(change) ==
  [change |-> change, handler |-> "none", at |-> "start", pending |-> {},
   snap |-> <<>>, out |-> <<>>]

\* updateMetadataIncrementally up to the Promise.all: one call of
\* processFileChange per change that has a locale.
UpdateMetadataIncrementally ==
  /\ pc = "update"
  /\ pc' = "updating"
  /\ LET grouped == GroupByLocale(changes)
     IN jobs' = [i \in 1..Len(grouped) |-> NewJob(grouped[i])]
  /\ UNCHANGED <<ordVars, warnings, pipeVars, changes, updatedFiles,
                 initially, fs, scanned, genVars, treeVars>>

\* processFileChange up to the first await of the handler it chooses:
\* path.basename(change.file) throws when the change has no 'file'.
ProcessFileChange(j) ==
  /\ pc = "updating"
  /\ jobs[j].at = "start"
  /\ LET change == jobs[j].change
         filename == Last(change.file)
         fileType == IF filename = LocaleMd THEN "locale"
                     ELSE IF filename = IndexMd THEN "index"
                     ELSE "article"
     IN IF "file" \notin DOMAIN change
          THEN /\ jobs' = [jobs EXCEPT ![j].at = "thrown"]
               /\ failed' = TRUE
               /\ UNCHANGED warnings
        ELSE IF fileType = "index" /\ IsRemoved(change)
          THEN /\ jobs' = [jobs EXCEPT ![j].at = "done",
                                       ![j].handler = fileType]
               /\ warnings' = warnings
                                \cup {Warning("removal", Dirname(change.file))}
               /\ UNCHANGED failed
        ELSE /\ jobs' = [jobs EXCEPT
                           ![j].at = "read",
                           ![j].handler = fileType,
                           ![j].pending = IF fileType = "locale"
                                            THEN {"locales"}
                                          ELSE {"full", "shallow"}]
             /\ UNCHANGED <<failed, warnings>>
  /\ UNCHANGED <<ordVars, pipeVars, changes, updatedFiles, initially, fs, pc,
                 scanned, tasks, disk, written, firstRun, localeIndices,
                 folderIndices, treeVars>>

\* One jsonWriter.read of a handler returns.
ReadArtifact(j, which) ==
  /\ pc = "updating"
  /\ jobs[j].at = "read"
  /\ which \in jobs[j].pending
  /\ jobs' = [jobs EXCEPT
                ![j].pending = @ \ {which},
                ![j].snap = (which :> JsonFileWriterRead(
                                        disk,
                                        ArtifactOf(jobs[j].change, which)))
                              @@ @]
  /\ UNCHANGED <<ordVars, warnings, pipeVars, changes, updatedFiles,
                 initially, fs, pc, scanned, genVars, treeVars>>

\* A handler goes on with what it has read: it throws, it warns and
\* returns, or it starts its writes.
Continue(j, outcome) ==
  /\ pc = "updating"
  /\ jobs[j].at = "read"
  /\ jobs[j].pending = {}
  /\ CASE outcome.kind = "thrown" ->
            /\ jobs' = [jobs EXCEPT ![j].at = "thrown"]
            /\ failed' = TRUE
            /\ UNCHANGED warnings
       [] outcome.kind = "skipped" ->
            /\ jobs' = [jobs EXCEPT ![j].at = "done"]
            /\ warnings' = warnings
                             \cup {Warning("not found",
                                           Dirname(jobs[j].change.file))}
            /\ UNCHANGED failed
       [] outcome.kind = "write" ->
            /\ jobs' = [jobs EXCEPT ![j].at = "write",
                                    ![j].out = outcome.out,
                                    ![j].pending = DOMAIN outcome.out]
            /\ UNCHANGED <<failed, warnings>>
  /\ UNCHANGED <<ordVars, pipeVars, changes, updatedFiles, initially, fs, pc,
                 scanned, tasks, disk, written, firstRun, localeIndices,
                 folderIndices, treeVars>>

UpdateLocaleMetadata(j) ==
  /\ jobs[j].handler = "locale"
  /\ jobs[j].at = "read" /\ jobs[j].pending = {}
  /\ Continue(j, UpdateLocaleMetadataOf(jobs[j].change,
                                        jobs[j].snap["locales"], fs))

UpdateFolderMetadata(j) ==
  /\ jobs[j].handler = "index"
  /\ jobs[j].at = "read" /\ jobs[j].pending = {}
  /\ Continue(j, UpdateFolderMetadataOf(jobs[j].change, jobs[j].snap["full"],
                                        jobs[j].snap["shallow"], fs))

UpdateArticleMetadata(j) ==
  /\ jobs[j].handler = "article"
  /\ jobs[j].at = "read" /\ jobs[j].pending = {}
  /\ Continue(j, UpdateArticleMetadataOf(jobs[j].change,
                                         jobs[j].snap["full"],
                                         jobs[j].snap["shallow"], fs))

\* One jsonWriter.write of a handler lands.  updateFolderMetadata awaits
\* the shallow write before the full one and records each file as it is
\* written; updateArticleMetadata starts both writes together and records
\* the two files after both.
WriteArtifact(j, which) ==
  /\ pc = "updating"
  /\ jobs[j].at = "write"
  /\ which \in jobs[j].pending
  /\ (jobs[j].handler = "index" /\ "shallow" \in jobs[j].pending)
       => which = "shallow"
  /\ LET change == jobs[j].change
         left == jobs[j].pending \ {which}
     IN /\ disk' = JsonFileWriterWrite(disk, ArtifactOf(change, which),
                                       jobs[j].out[which])
        /\ jobs' = [jobs EXCEPT ![j].pending = left,
                                ![j].at = IF left = {} THEN "done"
                                          ELSE "write"]
        /\ updatedFiles' =
             IF jobs[j].handler # "article"
               THEN updatedFiles \cup {ArtifactOf(change, which)}
             ELSE IF left = {}
               THEN updatedFiles \cup {ArtifactOf(change, "full"),
                                       ArtifactOf(change, "shallow")}
             ELSE updatedFiles
  /\ UNCHANGED <<ordVars, warnings, pipeVars, changes, initially, fs, pc,
                 scanned, tasks, written, firstRun, failed, localeIndices,
                 folderIndices, treeVars>>

\* Every call of processFileChange has returned or thrown.
FinishUpdate ==
  /\ pc = "updating"
  /\ \A j \in 1..Len(jobs) : jobs[j].at \in {"done", "thrown"}
  /\ pc' = "updated"
  /\ UNCHANGED <<ordVars, warnings, pipeVars, updVars, fs, scanned, genVars,
                 treeVars>>

(***************************************************************************)
(* The checkouts, artifacts and change sets the updater is run on.         *)
(***************************************************************************)
ZhCN == <<"z", "h", "-", "C", "N">>
ArticleX == <<"1", "a", "-", "x">>
ArticleZ == <<"3", "a", "-", "z">>
Advanced == <<"2", "b", "-", "a", "d", "v", "a", "n", "c", "e", "d">>
Renamed == <<"4", "a", "-", "w">>
ReadmeMd == <<"R", "E", "A", "D", "M", "E">> \o MdExt

Edits == {"modify 1a-x", "add 2b-advanced", "delete 3a-z", "rename 3a-z",
          "modify index", "modify en-US", "modify README", "delete uk-UA"}

\* A file as committed before the push, or as the push edited it.
Pushed(edits, edit, fm) ==
  IF edit \in edits THEN MdFile([fm EXCEPT !.title = "edited"], "sha-edited")
  ELSE MdFile(fm, "sha-first")

\* The checkout after a push that made the edits: three locales, a chapter
\* with two or three articles in the first one.
UpdateTree(edits) ==
  <<LocaleEntry(EnUS, Pushed(edits, "modify en-US", LocaleFm(8)),
      <<DirEntry(TopName, Pushed(edits, "modify index", FolderFm(1, "chapter")),
          <<FileEntry(ArticleX \o MdExt,
                      Pushed(edits, "modify 1a-x", ArticleFm(11, TRUE)))>>
          \o (IF "add 2b-advanced" \in edits
                THEN <<FileEntry(Advanced \o MdExt,
                                 MdFile(ArticleFm(12, TRUE), "sha-added"))>>
              ELSE <<>>)
          \o (IF "delete 3a-z" \in edits THEN <<>>
              ELSE <<FileEntry((IF "rename 3a-z" \in edits THEN Renamed
                                ELSE ArticleZ) \o MdExt,
                               MdFile(ArticleFm(13, TRUE), "sha-first"))>>))>>),
    LocaleEntry(UkUA,
      IF "delete uk-UA" \in edits THEN NoFile
      ELSE MdFile(LocaleFm(9), "sha-first"),
      <<DirEntry(TopName, MdFile(FolderFm(7, "chapter"), "sha-first"),
          <<FileEntry(FirstArticle \o MdExt,
                      MdFile(ArticleFm(31, TRUE), "sha-first"))>>)>>),
    LocaleEntry(ZhCN, MdFile(LocaleFm(10), "sha-first"), <<>>)>>

\* What 'git diff --name-status' prints for the push.
DiffLines ==
  <<[edit |-> "modify README", statusCode |-> "M", parts |-> <<<<ReadmeMd>>>>],
    [edit |-> "modify 1a-x", statusCode |-> "M",
     parts |-> <<<<EnUS, TopName, ArticleX \o MdExt>>>>],
    [edit |-> "add 2b-advanced", statusCode |-> "A",
     parts |-> <<<<EnUS, TopName, Advanced \o MdExt>>>>],
    [edit |-> "delete 3a-z", statusCode |-> "D",
     parts |-> <<<<EnUS, TopName, ArticleZ \o MdExt>>>>],
    [edit |-> "rename 3a-z", statusCode |-> "R100",
     parts |-> <<<<EnUS, TopName, ArticleZ \o MdExt>>,
                 <<EnUS, TopName, Renamed \o MdExt>>>>],
    [edit |-> "modify index", statusCode |-> "M",
     parts |-> <<<<EnUS, TopName, IndexMd>>>>],
    [edit |-> "modify en-US", statusCode |-> "M",
     parts |-> <<<<EnUS, LocaleMd>>>>],
    [edit |-> "delete uk-UA", statusCode |-> "D",
     parts |-> <<<<UkUA, LocaleMd>>>>]>>

DiffOf(edits) == SelectSeq(DiffLines, LAMBDA line : line.edit \in edits)

\* A change as the updater reads it: the path in 'file', the kind of change
\* in 'status', the locale of the path.
StatusChange(line) ==
  LET status == CASE line.statusCode = "A" -> "added"
                  [] line.statusCode = "M" -> "modified"
                  [] line.statusCode = "D" -> "removed"
                  [] IsRename(line.statusCode) -> "renamed"
      file == Last(line.parts)
      located == ParseContentPath(file)
  IN [file |-> file, status |-> status]
       @@ (IF HasLocale(located) THEN [locale |-> located.locale] ELSE <<>>)

\* The change set of a push: as detectChanges builds it, or with the fields
\* the updater reads.
ChangesOf(edits, shape) ==
  IF shape = "detected" THEN DetectChanges(DiffOf(edits))
  ELSE [i \in 1..Len(DiffOf(edits)) |-> StatusChange(DiffOf(edits)[i])]

RECURSIVE MergeFiles(_)
MergeFiles(files) ==
  IF Len(files) = 0 THEN <<>> ELSE Head(files) @@ MergeFiles(Tail(files))

\* The two indices generateLocaleIndices writes for a locale.
LocaleIndexFiles(locale) ==
  FileAt(locale.relativePath, "index.full.json")
    :> BuildLocaleIndices(locale).full
  @@ FileAt(locale.relativePath, "index.shallow.json")
       :> BuildLocaleIndices(locale).shallow

\* The three files generateFolderIndices writes for a top-level folder.
FolderIndexFiles(root, locale, folder) ==
  LET artifacts == FolderArtifacts(root, folder, locale.name, <<>>)
  IN FileAt(folder.relativePath, "ancestors.json") :> artifacts.ancestors
     @@ FileAt(folder.relativePath, "index.shallow.json")
          :> artifacts.shallow
     @@ FileAt(folder.relativePath, "index.full.json") :> artifacts.full

\* The files a full regeneration writes for a checkout whose folders are
\* all top-level ones.
GenerateMetadataFiles(root) ==
  LET repo == ScanRepositoryOf(root)
      OfLocale(locale) ==
        LocaleIndexFiles(locale)
          @@ MergeFiles([i \in 1..Len(locale.chapters) |->
                           FolderIndexFiles(root, locale, locale.chapters[i])])
  IN FileAt(<<>>, "locales.json") :> GenerateLocalesJson(repo).content
     @@ MergeFiles([i \in 1..Len(repo.locales) |->
                      OfLocale(repo.locales[i])])

\* A child as a shallow index lists it: without its own children.
Bare(child) == [key \in DOMAIN child \ {"children"} |-> child[key]]

\* index.shallow.json as ChapterShallowMetadata declares it: with the bare
\* metadata of the direct children.
ShallowWithChildren(files) ==
  [file \in DOMAIN files |->
     IF file.file = "index.shallow.json" /\ Len(file.dir) > 1
       THEN LET full == files[FileAt(file.dir, "index.full.json")]
            IN [children |-> [i \in 1..Len(full.children) |->
                                Bare(full.children[i])]]
                 @@ files[file]
     ELSE files[file]]

Without(files, missing) == [file \in DOMAIN files \ missing |-> files[file]]

ChapterDir == <<EnUS, TopName>>

Missing ==
  {{}, {FileAt(ChapterDir, "index.full.json")},
   {FileAt(ChapterDir, "index.shallow.json")},
   {FileAt(<<>>, "locales.json")}}

\* The artifacts in the checkout before the update: those of a full
\* regeneration of the checkout before the push, the shallow indices as
\* written or as declared, possibly one artifact missing.
Artifacts(shallowChildren, missing) ==
  LET generated == GenerateMetadataFiles(UpdateTree({}))
  IN Without(IF shallowChildren THEN ShallowWithChildren(generated)
             ELSE generated,
             missing)

\* A push edits some files; it does not both delete and rename one.
Pushes ==
  {edits \in SUBSET Edits :
     /\ Cardinality(edits) \in 1..MaxChanges
     /\ ~({"delete 3a-z", "rename 3a-z"} \subseteq edits)}

InitUpdate ==
  /\ cmpArgs = <<>>
  /\ cmpRes = NoCmp
  /\ slugIn = <<>>
  /\ slugOut = NoSlug
  /\ pc = "update"
  /\ scanned = <<>>
  /\ tasks = EmptyBag
  /\ written = <<>>
  /\ firstRun = [done |-> FALSE]
  /\ failed = FALSE
  /\ localeIndices = <<>>
  /\ folderIndices = <<>>
  /\ tree = [done |-> FALSE]
  /\ projected = [done |-> FALSE]
  /\ errors = [done |-> FALSE]
  /\ warnings = {}
  /\ pipeIn = <<>>
  /\ pipeOut = [done |-> FALSE]
  /\ jobs = <<>>
  /\ updatedFiles = {}
  /\ \E edits \in Pushes, shape \in {"detected", "status"},
        shallowChildren \in BOOLEAN, missing \in Missing :
       /\ fs = UpdateTree(edits)
       /\ disk = Artifacts(shallowChildren, missing)
       /\ initially = disk
       /\ changes = ChangesOf(edits, shape)

ArtifactKinds == {"locales", "full", "shallow"}

NextUpdate ==
  \/ UpdateMetadataIncrementally
  \/ \E j \in 1..Len(jobs) : ProcessFileChange(j)
  \/ \E j \in 1..Len(jobs), which \in ArtifactKinds : ReadArtifact(j, which)
  \/ \E j \in 1..Len(jobs) : UpdateLocaleMetadata(j)
  \/ \E j \in 1..Len(jobs) : UpdateFolderMetadata(j)
  \/ \E j \in 1..Len(jobs) : UpdateArticleMetadata(j)
  \/ \E j \in 1..Len(jobs), which \in ArtifactKinds : WriteArtifact(j, which)
  \/ FinishUpdate

SpecUpdate == InitUpdate /\ [][NextUpdate]_vars

(***************************************************************************)
(* Claims about the ordering primitives.                                   *)
(***************************************************************************)
RECURSIVE DigitsValue(_)
DigitsValue(ds) ==
  IF Len(ds) = 0 THEN 0
  ELSE 10 * DigitsValue(SubSeq(ds, 1, Len(ds) - 1)) + (Rank(ds[Len(ds)]) - 2)

Idx(s) == FIParse(s)

\* How the data model orders two indices: smaller integer first; at equal
\* integer the key with more letters first; at equal letter count the
\* letters in lexicographic order.
OrderedBefore(x, y) ==
  LET nx == DigitsValue(x.number)
      ny == DigitsValue(y.number)
  IN \/ nx < ny
     \/ nx = ny /\ Len(x.letters) > Len(y.letters)
     \/ /\ nx = ny
        /\ Len(x.letters) = Len(y.letters)
        /\ LocaleCompare(x.letters, y.letters) < 0

\* C1: FractionalIndex.compare is a total order on valid indices: the sign
\* of compare(a,b) is the opposite of the sign of compare(b,a), compare(a,b)<0
\* and compare(b,c)<0 imply compare(a,c)<0, and it puts the smaller integer
\* first, at equal integer the key with more letters first, at equal letter
\* count the lexicographically smaller letters first (1aa < 1a < 1b < 2a).
C1_CompareTotalOrder ==
  cmpRes.done =>
    /\ Sign(cmpRes.ab) = -Sign(cmpRes.ba)
    /\ (cmpRes.ab < 0 /\ cmpRes.bc < 0 => cmpRes.ac < 0)
    /\ (cmpRes.ab < 0 <=> OrderedBefore(cmpArgs.a, cmpArgs.b))
    /\ (cmpRes.ab = 0 <=> cmpArgs.a = cmpArgs.b)
    /\ (/\ cmpArgs.a = Idx(<<"1", "a", "a">>)
        /\ cmpArgs.b = Idx(<<"1", "a">>)
        /\ cmpArgs.c = Idx(<<"1", "b">>)
        => cmpRes.ab < 0 /\ cmpRes.bc < 0 /\ cmpRes.ac < 0)
    /\ (cmpArgs.a = Idx(<<"1", "b">>) /\ cmpArgs.b = Idx(<<"2", "a">>)
        => cmpRes.ab < 0)

\* The chain 1aa, 1a, 1b has been compared.
C1_Witness ==
  /\ cmpRes.done
  /\ cmpArgs.a = Idx(<<"1", "a", "a">>)
  /\ cmpArgs.b = Idx(<<"1", "a">>)
  /\ cmpArgs.c = Idx(<<"1", "b">>)
  /\ cmpRes.ab < 0 /\ cmpRes.bc < 0

\* C2: for every slug s, Slug.parse(s.full) succeeds and returns a slug
\* equal to s (same fractional index, same name).
C2_SlugRoundTrip ==
  (slugOut.done /\ slugOut.parsed.ok) =>
    /\ slugOut.again.ok
    /\ SlugEquals(slugOut.again, slugOut.parsed)

\* The round trip holds for every slug whose integer part prints in decimal.
C2_RoundTripBelowExp ==
  (/\ slugOut.done
   /\ slugOut.parsed.ok
   /\ Len(slugOut.parsed.fractionalIndex.number) < ExpDigits) =>
    /\ slugOut.again.ok
    /\ SlugEquals(slugOut.again, slugOut.parsed)

(***************************************************************************)
(* Claims about the scan, the artifacts and the element projections.       *)
(***************************************************************************)
Range(list) == {list[i] : i \in 1..Len(list)}

RECURSIVE Nested(_)
\* A metadata record and every record nested in its children.
Nested(record) ==
  {record} \cup (IF "children" \in DOMAIN record
                   THEN UNION {Nested(child) : child \in Range(record.children)}
                   ELSE {})

\* The artifacts that hold a list of records; the others hold one record.
HoldsList(file) ==
  file.file \in {"locales.json", "ancestors.json"} \/ Len(file.dir) = 1

TopRecords(file) ==
  IF HoldsList(file) THEN Range(disk[file]) ELSE {disk[file]}

FullIndexFiles == {file \in DOMAIN disk : file.file = "index.full.json"}

FolderFiles(name) ==
  {file \in DOMAIN disk : file.file = name /\ Len(file.dir) > 1}

RECURSIVE FoldersIn(_)
\* The scanned folders of a list, with everything scanned below them.
FoldersIn(folders) ==
  UNION {{folders[i]} \cup FoldersIn(folders[i].subfolders) :
           i \in 1..Len(folders)}

ScannedFolders ==
  IF pc = "start" \/ pc = "order" THEN {}
  ELSE UNION {FoldersIn(scanned.locales[i].chapters) :
                i \in 1..Len(scanned.locales)}

\* The scanned folder an artifact directory belongs to.
FolderOf(dir) == CHOOSE folder \in ScannedFolders : folder.relativePath = dir

\* The slug the generator gives to a scanned folder or article.
SlugOf(relativePath) ==
  [i \in 1..(Len(relativePath) - 1) |->
     IF i = Len(relativePath) - 1 THEN Basename(relativePath, MdExt)
     ELSE relativePath[i + 1]]

ByLastSegment(a, b) ==
  SlugCompare(SlugParse(Last(a.slug)), SlugParse(Last(b.slug)))

RECURSIVE ChildrenOrdered(_)
ChildrenOrdered(record) ==
  "children" \in DOMAIN record =>
    /\ \A i, j \in 1..Len(record.children) :
         i < j => ByLastSegment(record.children[i], record.children[j]) <= 0
    /\ \A i \in 1..Len(record.children) : ChildrenOrdered(record.children[i])

\* C3: in every index.full.json written by full regeneration, every children
\* array, at every nesting level, is ordered by the fractional index of each
\* child's last slug segment, ties broken by name.
C3_ChildrenOrdered ==
  \A file \in FullIndexFiles :
    \A record \in TopRecords(file) : ChildrenOrdered(record)

RECURSIVE SubtreeSlugs(_)
\* The slugs of the articles and directories of the subtree of a scanned
\* directory.
SubtreeSlugs(folder) ==
  {SlugOf(folder.articles[i].relativePath) : i \in 1..Len(folder.articles)}
  \cup UNION {{SlugOf(sub.relativePath)} \cup SubtreeSlugs(sub) :
                sub \in {s \in Range(folder.subfolders) :
                           FolderType(s) = "directory"}}

RECURSIVE ElementSubtreeSlugs(_)
ElementSubtreeSlugs(element) ==
  UNION {{ElementSlug(child)} \cup ElementSubtreeSlugs(child) :
           child \in {c \in Range(element.children) : c.type # "chapter"}}

NestedSlugs(record) == {r.slug : r \in Nested(record) \ {record}}

\* C4: in the full projection of a Chapter (its index.full.json and
\* ChapterElement.generateMetadata) a child Chapter appears with its own
\* metadata only and no children, and a child Directory appears with its
\* complete subtree: all descendant directories and articles.
C4_ChapterFullProjection ==
  /\ \A file \in FolderFiles("index.full.json") :
       FolderType(FolderOf(file.dir)) = "chapter" =>
         \A sub \in Range(FolderOf(file.dir).subfolders) :
           \E child \in Range(disk[file].children) :
             /\ child.slug = SlugOf(sub.relativePath)
             /\ FolderType(sub) = "chapter" => "children" \notin DOMAIN child
             /\ FolderType(sub) = "directory" =>
                  /\ "children" \in DOMAIN child
                  /\ SubtreeSlugs(sub) \subseteq NestedSlugs(child)
  /\ (projected.done /\ projected.element.type = "chapter") =>
       /\ projected.ok
       /\ \A sub \in Range(projected.element.children) :
            \E child \in Range(projected.value.children) :
              /\ child.slug = ElementSlug(sub)
              /\ sub.type = "chapter" => "children" \notin DOMAIN child
              /\ sub.type = "directory" =>
                   /\ "children" \in DOMAIN child
                   /\ ElementSubtreeSlugs(sub) \subseteq NestedSlugs(child)

\* The slugs of the direct children of a scanned folder.
DirectSlugs(folder) ==
  {SlugOf(folder.articles[i].relativePath) : i \in 1..Len(folder.articles)}
  \cup {SlugOf(sub.relativePath) : sub \in Range(folder.subfolders)}

\* C5: the index.shallow.json written for a folder holds the folder's own
\* fields plus a children array with exactly the bare metadata of its direct
\* children (no grandchildren); for a folder whose children are all articles
\* the shallow children equal the full children.
C5_ShallowHasChildren ==
  \A file \in FolderFiles("index.shallow.json") :
    /\ "children" \in DOMAIN disk[file]
    /\ {child.slug : child \in Range(disk[file].children)}
         = DirectSlugs(FolderOf(file.dir))
    /\ \A child \in Range(disk[file].children) :
         "children" \notin DOMAIN child
    /\ LET full == FileAt(file.dir, "index.full.json")
       IN (full \in DOMAIN disk /\ FolderOf(file.dir).subfolders = <<>>) =>
            disk[file].children = disk[full].children

\* The scanned locale of a name.
LocaleOf(name) ==
  CHOOSE locale \in Range(scanned.locales) : locale.name = name

\* The ancestors the data model gives the folder of a directory: the
\* metadata of its locale, then of every folder above it, outermost first.
ExpectedAncestors(dir) ==
  LET locale == LocaleOf(dir[1])
      above == [k \in 1..(Len(dir) - 2) |->
                  FolderOf(SubSeq(dir, 1, k + 1))]
  IN <<BuildMetadata(locale.localeFile.fileInfo.frontmatter,
                     locale.localeFile.gitMetadata, locale.name, <<>>)>>
       \o [k \in 1..Len(above) |->
             FolderMetadata(above[k], locale.name,
                            SlugOf(above[k].relativePath))]

RECURSIVE OnlyChapters(_)
OnlyChapters(record) ==
  "children" \in DOMAIN record =>
    \A child \in Range(record.children) :
      /\ "type" \in DOMAIN child
      /\ child.type = "chapter"
      /\ OnlyChapters(child)

\* C7: the locale-level full index (the locale's index.full.json and
\* LocaleElement.generateMetadata) contains only Chapters at every depth.
C7_LocaleIndexChaptersOnly ==
  /\ \A file \in FullIndexFiles :
       Len(file.dir) = 1 =>
         \A record \in Range(disk[file]) : OnlyChapters(record)
  /\ (projected.done /\ projected.element.type = "locale") =>
       projected.ok /\ OnlyChapters(projected.value)

\* Every metadata record of the artifacts on disk.
ArtifactRecords ==
  UNION {UNION {Nested(record) : record \in TopRecords(file)} :
           file \in DOMAIN disk}

\* Every metadata record a generateMetadata call has returned.
ProjectedRecords ==
  IF projected.done /\ projected.ok THEN Nested(projected.value) ELSE {}

SlugWithoutLocale(record) ==
  /\ \A i \in 1..Len(record.slug) : record.slug[i] # record.locale
  /\ ("type" \in DOMAIN record /\ record.type = "locale") =>
       record.slug = <<>>

\* C8: in every metadata record the program emits (the generateMetadata
\* projections of tree elements and the records written into the JSON
\* artifacts) the slug array never holds the locale code, and a locale's
\* slug is the empty array.
C8_SlugWithoutLocale ==
  \A record \in ArtifactRecords \cup ProjectedRecords :
    SlugWithoutLocale(record)

RECURSIVE Beneath(_, _)
\* The paths of a directory of the checkout and of everything in it.
Beneath(entry, path) ==
  {path} \cup UNION {IF IsDir(entry.entries[i])
                       THEN Beneath(entry.entries[i],
                                    Append(path, entry.entries[i].name))
                       ELSE {Append(path, entry.entries[i].name)} :
                     i \in 1..Len(entry.entries)}

RECURSIVE ExcludedIn(_, _)
\* The paths of the folders without index.md, with everything beneath them.
ExcludedIn(entries, path) ==
  UNION {IF ~IsDir(entries[i]) THEN {}
         ELSE IF ~entries[i].index.exists
           THEN Beneath(entries[i], Append(path, entries[i].name))
         ELSE ExcludedIn(entries[i].entries, Append(path, entries[i].name)) :
         i \in 1..Len(entries)}

Excluded ==
  UNION {ExcludedIn(fs[i].entries, <<fs[i].name>>) : i \in 1..Len(fs)}

\* The same paths as slugs are written: a markdown file without its
\* extension.
ExcludedSlugs ==
  {[i \in 1..Len(path) |->
      IF i = Len(path) THEN Basename(path, MdExt) ELSE path[i]] :
   path \in Excluded}

\* C10: a folder that has no index.md, together with every folder and
\* article beneath it, appears in no scanned tree and in no derived artifact
\* (no children entry anywhere, no index or ancestors file of its own), and
\* its absence produces no validation error.
C10_NoIndexExcluded ==
  /\ \A folder \in ScannedFolders :
       /\ folder.relativePath \notin Excluded
       /\ \A article \in Range(folder.articles) :
            article.relativePath \notin Excluded
  /\ \A file \in DOMAIN disk : file.dir \notin Excluded
  /\ \A record \in ArtifactRecords :
       <<record.locale>> \o record.slug \notin ExcludedSlugs
  /\ \A element \in TreeElements :
       ContentPathPath(element.path) \notin ExcludedSlugs
  /\ errors.done =>
       \A error \in Range(errors.list) :
         /\ error.code # "MISSING_INDEX_FILE"
         /\ Split(error.path, "/") \notin ExcludedSlugs

\* A folder without index.md that holds an article and a folder with an
\* index.md of its own is in the checkout, and a regeneration has finished.
C10_Witness ==
  /\ firstRun.done
  /\ \E path \in Excluded :
       /\ Append(path, IndexMd) \notin Excluded
       /\ \E below \in Excluded :
            /\ Len(below) = Len(path) + 1
            /\ SubSeq(below, 1, Len(path)) = path
            /\ EndsWith(Last(below), MdExt)
       /\ \E below \in Excluded :
            /\ Len(below) = Len(path) + 1
            /\ SubSeq(below, 1, Len(path)) = path
            /\ DirAt(fs, below) # NoDir
            /\ DirAt(fs, below).index.exists
  /\ DOMAIN firstRun.written # {}

(***************************************************************************)
(* Claims about names, identifiers and the validation pipeline.            *)
(***************************************************************************)
RECURSIVE IndexedIn(_, _)
\* The paths of the folders the scan can reach: every folder on the way
\* has an index.md.
IndexedIn(entries, path) ==
  UNION {IF ~IsDir(entries[i]) \/ ~entries[i].index.exists THEN {}
         ELSE {Append(path, entries[i].name)}
                \cup IndexedIn(entries[i].entries,
                               Append(path, entries[i].name)) :
         i \in 1..Len(entries)}

\* The folders with an index.md, below a folder of a locale, whose name
\* has no fractional index.
Unindexed ==
  {path \in UNION {IndexedIn(fs[i].entries, <<fs[i].name>>) :
                     i \in 1..Len(fs)} :
     Len(path) > 2 /\ ~IsFractionalIndex(Last(path))}

\* C11: a folder below the locale root whose name has no fractional index
\* and which has an index.md is reported by the scan as a naming violation
\* and is scanned; building the element tree completes and the folder is a
\* child of its parent's element, and validating the tree completes.
C11_UnindexedFolderIncluded ==
  \A path \in Unindexed :
    /\ pc # "start" =>
         /\ Warning("folder-naming", Last(path)) \in warnings
         /\ \E folder \in ScannedFolders : folder.relativePath = path
    /\ tree.done =>
         /\ tree.ok
         /\ \E parent \in TreeElements :
              \E i \in 1..Len(parent.children) :
                /\ ContentPathPath(parent.path)
                     = SubSeq(path, 1, Len(path) - 1)
                /\ ContentPathPath(parent.children[i].path) = path

\* The scan conforms: the folder is reported and scanned.
C11_ReportedAndScanned ==
  \A path \in Unindexed :
    pc # "start" =>
      /\ Warning("folder-naming", Last(path)) \in warnings
      /\ \E folder \in ScannedFolders : folder.relativePath = path

\* The elements of the validated batch whose frontmatter holds the id.
Holding(id) ==
  SelectSeq(pipeIn.elements,
            LAMBDA e : "id" \in DOMAIN e.frontmatter /\ e.frontmatter.id = id)

\* The duplicate-identifier diagnostics the pipeline returned for the id.
DuplicatesOf(id) ==
  SelectSeq(pipeOut.errors,
            LAMBDA d : d.code = "DUPLICATE_ID" /\ d.message.id = id)

\* A batch went through the duplicate-id check alone or with other checks,
\* without a cap on the diagnostics.
DuplicateIdChecked ==
  /\ pipeOut.done
  /\ pipeIn.mode = "validateBatch"
  /\ pipeIn.options.enabledValidators["duplicateId"]
  /\ pipeIn.options.maxErrors = 0

\* For every id, k >= 2 elements holding it give k diagnostics, one at the
\* path of each of them and each listing the k paths; one element gives
\* none.
ExactDuplicates ==
  /\ pipeOut.ok
  /\ \A id \in {e.frontmatter.id :
                  e \in {x \in Range(pipeIn.elements) :
                           "id" \in DOMAIN x.frontmatter}} :
       LET paths == [k \in 1..Len(Holding(id)) |->
                       ContentPathToString(Holding(id)[k].path)]
           found == DuplicatesOf(id)
       IN IF Len(paths) >= 2
            THEN /\ Len(found) = Len(paths)
                 /\ {found[k].path : k \in 1..Len(found)} = Range(paths)
                 /\ \A k \in 1..Len(found) :
                      Range(found[k].message.paths) = Range(paths)
            ELSE Len(found) = 0

\* C12: for any batch of elements, every id shared by k >= 2 elements, at
\* any depth and in any locales, yields exactly k duplicate-identifier
\* diagnostics, one per occurrence and each listing all k paths, and an id
\* that occurs once yields none.
C12_DuplicateDiagnostics == DuplicateIdChecked => ExactDuplicates

\* The same for the batches in which every element has a well-formed id.
C12_WellFormedIds ==
  (DuplicateIdChecked
     /\ \A e \in Range(pipeIn.elements) : ElementId(e).ok)
    => ExactDuplicates

\* Three elements in two locales and at two depths share an id, a fourth
\* has an id of its own, and the batch was checked.
C12_ThreeShare ==
  /\ DuplicateIdChecked
  /\ Len(pipeIn.elements) = 4
  /\ \A e \in Range(pipeIn.elements) : ElementId(e).ok
  /\ \E id \in 1..MaxIds : Len(Holding(id)) = 3

\* What each enabled check yields for the input of the pipeline, in the
\* order of the checks; a check that throws yields nothing.
EnabledDiagnostics ==
  LET validators == CreateValidators(pipeIn.options)
      Yield(name) ==
        IF pipeIn.mode = "validate"
          THEN RunValidate(name, pipeIn.elements[1])
          ELSE RunValidateBatch(name, pipeIn.elements)
  IN Flatten([i \in 1..Len(validators) |->
                IF Yield(validators[i]).ok THEN Yield(validators[i]).list
                ELSE <<>>])

\* C15: validateBatch never throws: for any batch, also one with elements
\* whose id is missing or malformed, it returns a result, and the result
\* holds the diagnostics of every enabled check.
C15_ValidateBatchReturns ==
  (pipeOut.done /\ pipeIn.mode = "validateBatch") =>
    /\ pipeOut.ok
    /\ pipeIn.options.maxErrors = 0 => pipeOut.errors = EnabledDiagnostics

\* validate of a single element does return for every element.
C15_ValidateReturns ==
  (pipeOut.done /\ pipeIn.mode = "validate") => pipeOut.ok

\* C16: with maxErrors = N > 0 a run of the pipeline, validate or
\* validateBatch, collects at most N diagnostics; with maxErrors = 0 every
\* enabled check runs and all its diagnostics are collected.
C16_MaxErrorsCap ==
  (pipeOut.done /\ pipeOut.ok) =>
    /\ pipeIn.options.maxErrors > 0 =>
         Len(pipeOut.errors) <= pipeIn.options.maxErrors
    /\ pipeIn.options.maxErrors = 0 => pipeOut.errors = EnabledDiagnostics

\* Without a cap, a run that returns has collected everything.
C16_Unlimited ==
  (pipeOut.done /\ pipeOut.ok /\ pipeIn.options.maxErrors = 0) =>
    pipeOut.errors = EnabledDiagnostics

(***************************************************************************)
(* Claims about a chapter under a directory.                               *)
(***************************************************************************)
\* The folders of the checkout that the scan reaches.
Indexed ==
  UNION {IndexedIn(fs[i].entries, <<fs[i].name>>) : i \in 1..Len(fs)}

DeclaredType(path) == FmType(DirAt(fs, path).index.frontmatter)

\* The folders declared a directory that hold a folder declared a chapter.
DirectoriesWithChapter ==
  {path \in Indexed :
     /\ DeclaredType(path) = "directory"
     /\ \E below \in Indexed :
          /\ Len(below) = Len(path) + 1
          /\ SubSeq(below, 1, Len(path)) = path
          /\ DeclaredType(below) = "chapter"}

\* C13: when a directory holds a sub-folder whose index.md declares a
\* chapter, building the element tree from the scan completes, and
\* validating the tree yields a DIRECTORY_CONTAINS_CHAPTER error for the
\* directory.
C13_DirectoryWithChapterReported ==
  \A path \in DirectoriesWithChapter :
    /\ tree.done => tree.ok
    /\ errors.done =>
         \E error \in Range(errors.list) :
           /\ error.code = "DIRECTORY_CONTAINS_CHAPTER"
           /\ error.path = Join(path, "/")

\* The records of scanned directories holding a chapter that the written
\* full indices embed with their children: the directory's own
\* index.full.json and every record of it nested in another one.
EmbeddedDirectories ==
  {record \in UNION {UNION {Nested(top) : top \in TopRecords(file)} :
                       file \in FullIndexFiles} :
     /\ "children" \in DOMAIN record
     /\ <<record.locale>> \o record.slug \in DirectoriesWithChapter}

ScannedAt(record) == FolderOf(<<record.locale>> \o record.slug)

ChapterSlugs(folder) ==
  {SlugOf(sub.relativePath) :
     sub \in {x \in Range(folder.subfolders) : FolderType(x) = "chapter"}}

\* A directory that holds a chapter lies in a top-level chapter.
ChapterBelowChapterDirectory ==
  \E path \in DirectoriesWithChapter :
    /\ Len(path) > 2
    /\ DeclaredType(SubSeq(path, 1, 2)) = "chapter"

ChildSlugs(record) == {child.slug : child \in Range(record.children)}

\* C14: in full regeneration a chapter found under a directory is left out
\* of the directory's children in every artifact that embeds the directory,
\* all the other children of the directory are emitted, and the run
\* completes without failing.
C14_ChapterUnderDirectorySkipped ==
  /\ \A record \in EmbeddedDirectories :
       ChildSlugs(record)
         = DirectSlugs(ScannedAt(record)) \ ChapterSlugs(ScannedAt(record))
  /\ (firstRun.done /\ ChapterBelowChapterDirectory) => ~firstRun.failed

\* The chapter is left out and the run does not fail.
C14_SkippedNotFatal ==
  /\ \A record \in EmbeddedDirectories :
       /\ ChildSlugs(record) \cap ChapterSlugs(ScannedAt(record)) = {}
       /\ ChildSlugs(record) \subseteq DirectSlugs(ScannedAt(record))
  /\ (firstRun.done /\ ChapterBelowChapterDirectory) => ~firstRun.failed

\* Every child but the chapter is emitted when every article of the
\* directory declares its type.
C14_TypedChildrenEmitted ==
  \A record \in EmbeddedDirectories :
    (\A article \in Range(ScannedAt(record).articles) :
       FmType(article.fileInfo.frontmatter) = "article")
    => ChildSlugs(record)
         = DirectSlugs(ScannedAt(record)) \ ChapterSlugs(ScannedAt(record))

\* A finished run that embedded a directory which holds a chapter and lies
\* in a top-level chapter.
C14_SkippedReached ==
  /\ firstRun.done /\ ChapterBelowChapterDirectory
  /\ \E record \in EmbeddedDirectories : Len(record.slug) > 1

(***************************************************************************)
(* Claims about the incremental update.                                    *)
(***************************************************************************)
ChapterFull == FileAt(ChapterDir, "index.full.json")
ChapterShallow == FileAt(ChapterDir, "index.shallow.json")
LocalesJson == FileAt(<<>>, "locales.json")

\* The path and the kind of a change, whichever fields carry them.
PathOf(change) ==
  IF "file" \in DOMAIN change THEN change.file ELSE change.relativePath

KindOf(change) ==
  IF "status" \in DOMAIN change THEN change.status ELSE change.changeType

\* The push has changed the file at the path in one of the ways.
Pushing(path, kinds) ==
  \E i \in 1..Len(changes) :
    PathOf(changes[i]) = path /\ KindOf(changes[i]) \in kinds

\* The changes have the fields the updater reads.
StatusShaped == \A i \in 1..Len(changes) : "file" \in DOMAIN changes[i]

SortedChildren(metadata) ==
  /\ HasChildren(metadata)
  /\ \A i, j \in 1..Len(metadata.children) :
       i < j => ByLastSegment(metadata.children[i], metadata.children[j]) <= 0

\* Both indices of the chapter are there, with sorted children arrays.
SortedIn(files) ==
  /\ {ChapterFull, ChapterShallow} \subseteq DOMAIN files
  /\ SortedChildren(files[ChapterFull])
  /\ SortedChildren(files[ChapterShallow])

ChildNames(metadata) ==
  [i \in 1..Len(metadata.children) |-> Last(metadata.children[i].slug)]

ArticlePaths ==
  {<<EnUS, TopName, name \o MdExt>> : name \in {ArticleX, Advanced}}

\* C17: after an incremental add or modify of an article in a folder whose
\* full and shallow children arrays are sorted, both arrays hold the
\* article and are sorted by the fractional index of the last slug segment.
C17_ChildrenResorted ==
  \A path \in ArticlePaths :
    (/\ pc = "updated"
     /\ Pushing(path, {"added", "modified"})
     /\ SortedIn(initially))
    => /\ SortedIn(disk)
       /\ \A file \in {ChapterFull, ChapterShallow} :
            FindIndex(disk[file].children, Basename(path, MdExt)) > 0

\* A modified article is replaced where it was.
C17_ModifiedInPlace ==
  (/\ pc = "updated" /\ StatusShaped /\ Len(changes) = 1
   /\ Pushing(<<EnUS, TopName, ArticleX \o MdExt>>, {"modified"})
   /\ SortedIn(initially))
  => /\ SortedIn(disk)
     /\ ChildNames(disk[ChapterFull]) = ChildNames(initially[ChapterFull])
     /\ disk[ChapterFull].children[1].title = "edited"

\* An added article is put at the end of both arrays.
C17_AddedLast ==
  (/\ pc = "updated" /\ StatusShaped /\ Len(changes) = 1
   /\ Pushing(<<EnUS, TopName, Advanced \o MdExt>>, {"added"})
   /\ SortedIn(initially))
  => \A file \in {ChapterFull, ChapterShallow} :
       ChildNames(disk[file]) = <<ArticleX, ArticleZ, Advanced>>

\* With the shallow index as the generator writes it, without a children
\* array, the update of an article throws.
C17_GeneratedShallowThrows ==
  (/\ pc = "updated" /\ StatusShaped
   /\ \E path \in ArticlePaths : Pushing(path, {"added", "modified"})
   /\ {ChapterFull, ChapterShallow} \subseteq DOMAIN initially
   /\ ~HasChildren(initially[ChapterShallow]))
  => failed

\* The changes that detectChanges builds make the update throw.
DetectedChangesThrow ==
  (pc = "updated" /\ ~StatusShaped /\ \E i \in 1..Len(changes) :
     HasLocale(changes[i]))
  => failed /\ disk = initially /\ updatedFiles = {}

\* locales.json without the entry of uk-UA, the rest as it was.
WithoutUkUA(locales) == SelectSeq(locales, LAMBDA l : l.locale # UkUA)

\* The push deletes uk-UA/locale.md and changes no other locale.md, and
\* locales.json is there.
DeletesUkUA ==
  /\ Pushing(<<UkUA, LocaleMd>>, {"deleted", "removed"})
  /\ ~Pushing(<<EnUS, LocaleMd>>, {"added", "modified", "deleted", "removed"})
  /\ LocalesJson \in DOMAIN initially

\* C18: processing the deletion of the locale.md of a locale removes the
\* entry of that locale from locales.json and leaves the other entries,
\* their fields and their order as they were.
C18_LocaleEntryRemoved ==
  (pc = "updated" /\ DeletesUkUA)
  => /\ disk[LocalesJson] = WithoutUkUA(initially[LocalesJson])
     /\ Len(disk[LocalesJson]) = Len(initially[LocalesJson]) - 1

\* A change with status 'removed' does remove exactly that entry.
C18_RemovedStatus ==
  (pc = "updated" /\ DeletesUkUA /\ StatusShaped)
  => /\ disk[LocalesJson] = WithoutUkUA(initially[LocalesJson])
     /\ Len(disk[LocalesJson]) = Len(initially[LocalesJson]) - 1

\* Next to a change of another locale.md the removal can be undone by the
\* write of the other change, but never touches a third entry.
C18_OtherEntriesKept ==
  (/\ pc = "updated" /\ StatusShaped
   /\ Pushing(<<UkUA, LocaleMd>>, {"removed"})
   /\ LocalesJson \in DOMAIN initially)
  => \E i \in 1..Len(disk[LocalesJson]) :
       disk[LocalesJson][i] = initially[LocalesJson][3]

IndexPath == <<EnUS, TopName, IndexMd>>

\* The push modifies the index.md of the chapter and none of its articles,
\* and both indices of the chapter are there.
ModifiesIndex ==
  /\ Pushing(IndexPath, {"modified"})
  /\ \A i \in 1..Len(changes) :
       Dirname(PathOf(changes[i])) = ChapterDir
         => PathOf(changes[i]) = IndexPath
  /\ {ChapterFull, ChapterShallow} \subseteq DOMAIN initially

\* The children array of an artifact, or that it has none.
ChildrenOf(metadata) ==
  IF HasChildren(metadata) THEN [has |-> TRUE, list |-> metadata.children]
  ELSE [has |-> FALSE]

\* C19: processing a modified index.md rewrites the header fields of the
\* folder's index.shallow.json and index.full.json from the file and leaves
\* the children array of each of the two as it was.
C19_HeaderRewrittenChildrenKept ==
  (pc = "updated" /\ ModifiesIndex)
  => \A file \in {ChapterFull, ChapterShallow} :
       /\ disk[file].title = "edited"
       /\ disk[file].sha = "sha-edited"
       /\ ChildrenOf(disk[file]) = ChildrenOf(initially[file])

\* With a change that carries 'file', the headers of both artifacts are
\* rewritten and the children of index.full.json are kept.
C19_FullChildrenKept ==
  (pc = "updated" /\ ModifiesIndex /\ StatusShaped)
  => /\ \A file \in {ChapterFull, ChapterShallow} :
          /\ disk[file].title = "edited"
          /\ disk[file].sha = "sha-edited"
     /\ ChildrenOf(disk[ChapterFull]) = ChildrenOf(initially[ChapterFull])

\* index.shallow.json is rewritten without a children array.
C19_ShallowChildrenDropped ==
  (pc = "updated" /\ ModifiesIndex /\ StatusShaped)
  => ~HasChildren(disk[ChapterShallow])

AnyKind == {"added", "modified", "deleted", "removed"}

\* A change of the push needs the indices of the chapter, and one of the
\* two is missing.
NeedsMissingIndex ==
  /\ \E i \in 1..Len(changes) : Dirname(PathOf(changes[i])) = ChapterDir
  /\ ~({ChapterFull, ChapterShallow} \subseteq DOMAIN initially)

\* The artifacts of the chapter are as they were.
ChapterUntouched ==
  \A file \in {ChapterFull, ChapterShallow} :
    /\ file \in DOMAIN disk <=> file \in DOMAIN initially
    /\ file \in DOMAIN disk => disk[file] = initially[file]

\* The one change of a locale.md in the push has been applied.
LocaleChangeApplied ==
  /\ (Pushing(<<UkUA, LocaleMd>>, AnyKind)
        /\ ~Pushing(<<EnUS, LocaleMd>>, AnyKind))
       => disk[LocalesJson] = WithoutUkUA(initially[LocalesJson])
  /\ (Pushing(<<EnUS, LocaleMd>>, AnyKind)
        /\ ~Pushing(<<UkUA, LocaleMd>>, AnyKind))
       => /\ Len(disk[LocalesJson]) = Len(initially[LocalesJson])
          /\ disk[LocalesJson][1].locale = EnUS
          /\ disk[LocalesJson][1].title = "edited"

\* C20: when index.full.json or index.shallow.json of the folder of a change
\* is missing, the change writes nothing and raises no error, and the other
\* changes of the push are applied.
C20_MissingIndexSkipped ==
  (pc = "updated" /\ NeedsMissingIndex)
  => ~failed /\ ChapterUntouched /\ LocaleChangeApplied

\* It is so for changes that carry 'file' and 'status'.
C20_SkippedWithFile ==
  (pc = "updated" /\ NeedsMissingIndex /\ StatusShaped)
  => ~failed /\ ChapterUntouched /\ LocaleChangeApplied

\* A push with a change that needs a missing index and a change of a
\* locale.md has been handled.
C20_SkippedReached ==
  /\ pc = "updated" /\ NeedsMissingIndex /\ StatusShaped
  /\ \E i \in 1..Len(changes) : Last(PathOf(changes[i])) = LocaleMd

\* The push changes the locale.md of two locales: it modifies that of en-US
\* and deletes that of uk-UA, and locales.json is there.
TwoLocalesChanged ==
  /\ Pushing(<<EnUS, LocaleMd>>, {"modified"})
  /\ Pushing(<<UkUA, LocaleMd>>, {"deleted", "removed"})
  /\ LocalesJson \in DOMAIN initially

\* locales.json shows both changes.
BothLocalesApplied ==
  /\ \A i \in 1..Len(disk[LocalesJson]) : disk[LocalesJson][i].locale # UkUA
  /\ \E i \in 1..Len(disk[LocalesJson]) :
       /\ disk[LocalesJson][i].locale = EnUS
       /\ disk[LocalesJson][i].title = "edited"

\* C21: when a change set holds locale.md changes of two locales, then once
\* updateMetadataIncrementally has completed locales.json shows every one
\* of them, whatever the interleaving of the two handlers.
C21_EveryLocaleChangeApplied ==
  (pc = "updated" /\ TwoLocalesChanged) => BothLocalesApplied

\* With changes that carry 'file' and 'status', an update that did not
\* throw has lost one of the two changes.
C21_LostUpdate ==
  /\ pc = "updated" /\ TwoLocalesChanged /\ StatusShaped /\ ~failed
  /\ ~BothLocalesApplied

\* Of two locale.md changes at least one is applied when nothing throws.
C21_OneApplied ==
  (pc = "updated" /\ TwoLocalesChanged /\ StatusShaped)
  => \/ \A i \in 1..Len(disk[LocalesJson]) :
          disk[LocalesJson][i].locale # UkUA
     \/ \E i \in 1..Len(disk[LocalesJson]) :
          disk[LocalesJson][i].title = "edited"

\* Every change of the push is a change of an article of the chapter.
ArticleChangesOnly ==
  \A i \in 1..Len(changes) :
    /\ Dirname(PathOf(changes[i])) = ChapterDir
    /\ Last(PathOf(changes[i])) # IndexMd

\* The artifacts were those a full regeneration of the checkout before the
\* push writes.
RegeneratedBefore == initially = GenerateMetadataFiles(UpdateTree({}))

LocaleFull == FileAt(<<EnUS>>, "index.full.json")

\* C22: starting from the artifacts of a full regeneration of the tree
\* before the push, an incremental update for additions, modifications and
\* deletions of articles leaves every artifact equal to what a full
\* regeneration of the tree after the push writes.
C22_UpdateEqualsRegeneration ==
  (pc = "updated" /\ ArticleChangesOnly /\ RegeneratedBefore)
  => disk = GenerateMetadataFiles(fs)

\* The updater never writes the index of the locale, which embeds the
\* articles of its chapters.
C22_LocaleIndexStale ==
  (pc = "updated" /\ ArticleChangesOnly /\ LocaleFull \in DOMAIN initially)
  => /\ disk[LocaleFull] = initially[LocaleFull]
     /\ disk[LocaleFull] # GenerateMetadataFiles(fs)[LocaleFull]

\* With shallow indices that list their children, one modification or
\* deletion leaves the full index of the folder as a regeneration writes it.
C22_FolderIndexOfOneChange ==
  (/\ pc = "updated" /\ ArticleChangesOnly /\ StatusShaped
   /\ Len(changes) = 1 /\ KindOf(changes[1]) \in {"modified", "removed"}
   /\ SortedIn(initially))
  => disk[ChapterFull] = GenerateMetadataFiles(fs)[ChapterFull]

\* An index of the chapter shows the change of an article: a deleted
\* article is not listed, an added or modified one is listed as the pushed
\* file has it.
Reflects(metadata, change) ==
  LET articleName == Basename(PathOf(change), MdExt)
      index == FindIndex(metadata.children, articleName)
  IN /\ HasChildren(metadata)
     /\ IF KindOf(change) \in {"deleted", "removed"} THEN index = 0
        ELSE /\ index > 0
             /\ metadata.children[index].sha
                  = LoadLocalFile(fs, PathOf(change)).sha

\* The push changes two articles of the chapter, whose two indices are
\* there and list their children.
TwoArticlesChanged ==
  /\ Len(changes) = 2
  /\ ArticleChangesOnly
  /\ {ChapterFull, ChapterShallow} \subseteq DOMAIN initially
  /\ HasChildren(initially[ChapterFull])
  /\ HasChildren(initially[ChapterShallow])

BothArticlesApplied ==
  \A file \in {ChapterFull, ChapterShallow}, i \in 1..Len(changes) :
    Reflects(disk[file], changes[i])

\* C23: when a change set holds changes of two articles of one folder, then
\* once the update has completed the folder's index.full.json and
\* index.shallow.json show both changes, whatever the interleaving.
C23_BothArticleChangesApplied ==
  (pc = "updated" /\ TwoArticlesChanged) => BothArticlesApplied

\* With changes that carry 'file' and 'status', an update that did not
\* throw has lost one of the two changes.
C23_LostUpdate ==
  /\ pc = "updated" /\ TwoArticlesChanged /\ StatusShaped /\ ~failed
  /\ ~BothArticlesApplied

\* One change of an article alone is shown by both indices.
C23_OneArticleChangeApplied ==
  (/\ pc = "updated" /\ Len(changes) = 1 /\ ArticleChangesOnly
   /\ StatusShaped /\ SortedIn(initially))
  => \A file \in {ChapterFull, ChapterShallow} :
       Reflects(disk[file], changes[1])

\* C24: an incremental update of an article, applied to a folder whose
\* artifacts a full regeneration wrote, completes without throwing and
\* writes index.full.json and index.shallow.json of the folder.
C24_UpdateAfterRegeneration ==
  (pc = "updated" /\ ArticleChangesOnly /\ RegeneratedBefore)
  => ~failed /\ {ChapterFull, ChapterShallow} \subseteq updatedFiles

\* Such an update throws and writes nothing, also for a change that carries
\* 'file' and 'status'.
C24_RegeneratedShallowThrows ==
  (pc = "updated" /\ ArticleChangesOnly /\ RegeneratedBefore /\ StatusShaped)
  => failed /\ disk = initially /\ updatedFiles = {}

\* It completes and writes both files when the shallow index lists its
\* children.
C24_CompletesWithChildren ==
  (pc = "updated" /\ ArticleChangesOnly /\ StatusShaped /\ SortedIn(initially))
  => ~failed /\ {ChapterFull, ChapterShallow} \subseteq updatedFiles

\* The changes are records that detectChanges built.
Detected == \A i \in 1..Len(changes) : "relativePath" \in DOMAIN changes[i]

\* The handler for the file name of a path.
HandlerFor(path) ==
  IF Last(path) = LocaleMd THEN "locale"
  ELSE IF Last(path) = IndexMd THEN "index"
  ELSE "article"

\* C25: every change record that detectChanges produces is processed by
\* updateMetadataIncrementally without error and handled as a locale,
\* folder or article change by the file name of the path the detector
\* recorded, and a change tagged as deleted is handled as a removal: the
\* entry of a deleted locale.md leaves locales.json.
C25_DetectedChangesProcessed ==
  (pc = "updated" /\ Detected)
  => /\ ~failed
     /\ \A j \in 1..Len(jobs) :
          jobs[j].handler = HandlerFor(jobs[j].change.relativePath)
     /\ DeletesUkUA => disk[LocalesJson] = WithoutUkUA(initially[LocalesJson])

\* No record of the detector has the 'file' and 'status' that the updater
\* reads, and every record with a locale makes processFileChange throw
\* before it has chosen a handler.
C25_NoHandlerChosen ==
  (pc = "updated" /\ Detected)
  => \A j \in 1..Len(jobs) :
       /\ {"file", "status"} \cap DOMAIN jobs[j].change = {}
       /\ jobs[j].at = "thrown"
       /\ jobs[j].handler = "none"

\* The push renames 3a-z.md of the chapter, whose two indices are there and
\* list their children.
RenamesArticle ==
  /\ Pushing(<<EnUS, TopName, Renamed \o MdExt>>, {"renamed"})
  /\ {ChapterFull, ChapterShallow} \subseteq DOMAIN initially
  /\ HasChildren(initially[ChapterFull])
  /\ HasChildren(initially[ChapterShallow])

\* C26: after an incremental update for a renamed article, the children
\* arrays of the folder that held the old name have no entry for the old
\* name, and those of the folder that holds the new name have an entry for
\* the new name.
C26_RenamedArticleMoved ==
  (pc = "updated" /\ RenamesArticle)
  => \A file \in {ChapterFull, ChapterShallow} :
       /\ HasChildren(disk[file])
       /\ FindIndex(disk[file].children, ArticleZ) = 0
       /\ FindIndex(disk[file].children, Renamed) > 0

\* The record of the detector carries the old path, and a rename that the
\* updater handles alone adds the new name and keeps the old one.
C26_OldNameKept ==
  /\ (Detected /\ Pushing(<<EnUS, TopName, Renamed \o MdExt>>, {"renamed"}))
       => \E i \in 1..Len(changes) :
            /\ "oldPath" \in DOMAIN changes[i]
            /\ changes[i].oldPath = <<EnUS, TopName, ArticleZ \o MdExt>>
  /\ (pc = "updated" /\ RenamesArticle /\ StatusShaped /\ Len(changes) = 1)
       => \A file \in {ChapterFull, ChapterShallow} :
            /\ FindIndex(disk[file].children, ArticleZ) > 0
            /\ FindIndex(disk[file].children, Renamed) > 0

(***************************************************************************)
(* Claims about the hierarchy check of a batch.                            *)
(***************************************************************************)
\* A batch run in which the hierarchy check alone is enabled and nothing
\* caps the number of diagnostics.
HierarchyOnly ==
  /\ pipeOut.done
  /\ pipeIn.mode = "validateBatch"
  /\ pipeIn.options.maxErrors = 0
  /\ CreateValidators(pipeIn.options) = <<"hierarchy">>

\* The elements of the batch for which validate yields a diagnostic.
LocallyIllegal ==
  {i \in 1..Len(pipeIn.elements) :
     HierarchyValidate(pipeIn.elements[i]) # <<>>}

C27_RelationalOnly ==
  HierarchyOnly =>
    /\ pipeOut.ok
    /\ pipeOut.errors = Flatten([i \in 1..Len(pipeIn.elements) |->
                                  ParentDiagnostics(pipeIn.elements,
                                                    pipeIn.elements[i])])

\* A directory holding a chapter went through the batch run.
C27_LocallyIllegalReached == HierarchyOnly /\ LocallyIllegal # {}

(***************************************************************************)
(* Claims about a folder of a locale that is no chapter.                   *)
(***************************************************************************)
\* The folder directly under en-US has an index.md that declares a kind
\* other than chapter.
NonChapterTopFolder ==
  /\ <<EnUS, TopName>> \in Indexed
  /\ DeclaredType(<<EnUS, TopName>>) # "chapter"

\* The files of the first run written at or below a directory.
WrittenBelow(dir) ==
  {file \in DOMAIN firstRun.written :
     /\ Len(file.dir) >= Len(dir)
     /\ SubSeq(file.dir, 1, Len(dir)) = dir}

\* C28: when a folder directly under a locale declares a kind other than
\* chapter, full regeneration completes without failing and writes the
\* artifacts of the other nodes and of the other locales: the indices of
\* the locale itself and everything of the second locale.
C28_NonChapterTopFolderSkipped ==
  (firstRun.done /\ NonChapterTopFolder) =>
    /\ ~firstRun.failed
    /\ FileAt(<<EnUS>>, "index.full.json") \in DOMAIN firstRun.written
    /\ FileAt(<<EnUS>>, "index.shallow.json") \in DOMAIN firstRun.written
    /\ FileAt(<<UkUA, TopName>>, "index.full.json")
         \in DOMAIN firstRun.written

\* What the run does instead: it fails and writes nothing for the locale.
C28_LocaleFails ==
  (firstRun.done /\ NonChapterTopFolder) =>
    /\ firstRun.failed
    /\ WrittenBelow(<<EnUS>>) = {}

\* The tasks of the other locale were started before and do finish.
C28_OtherLocaleWritten ==
  (firstRun.done /\ NonChapterTopFolder) =>
    /\ FileAt(<<UkUA>>, "index.full.json") \in DOMAIN firstRun.written
    /\ FileAt(<<UkUA, TopName>>, "index.full.json")
         \in DOMAIN firstRun.written

\* A run over such a checkout has finished.
C28_NonChapterReached == firstRun.done /\ NonChapterTopFolder

(***************************************************************************)
(* Claims about the sub-folders of a scanned folder.                       *)
(***************************************************************************)
\* How often a path occurs among the sub-folders of a scanned folder.
Occurrences(folder, path) ==
  Cardinality({i \in 1..Len(folder.subfolders) :
                 folder.subfolders[i].relativePath = path})

\* The paths of the indexed folders directly below a scanned folder.
IndexedBelow(folder) ==
  {path \in Indexed :
     /\ Len(path) = Len(folder.relativePath) + 1
     /\ SubSeq(path, 1, Len(folder.relativePath)) = folder.relativePath}

\* The directory entries of the checkout below a scanned folder.
DirectoriesIn(folder) ==
  SelectSeq(DirAt(fs, folder.relativePath).entries, IsDir)

\* The records with children in the full indices that are written.
RecordsWithChildren ==
  {record \in UNION {UNION {Nested(top) : top \in TopRecords(file)} :
                       file \in FullIndexFiles} :
     "children" \in DOMAIN record}

\* C29: in the scanned tree every sub-folder with a loadable index.md
\* occurs exactly once among the sub-folders of its parent, however many
\* directories the parent holds, and no children array derived from the
\* scan lists a folder twice.
C29_SubfolderOnce ==
  /\ \A folder \in ScannedFolders :
       \A path \in IndexedBelow(folder) : Occurrences(folder, path) = 1
  /\ \A record \in RecordsWithChildren :
       \A i, j \in 1..Len(record.children) :
         record.children[i].slug = record.children[j].slug => i = j

\* What the scan does: a sub-folder occurs once for every directory entry
\* of its parent, with or without an index.md.
C29_OncePerDirectoryEntry ==
  \A folder \in ScannedFolders :
    \A path \in IndexedBelow(folder) :
      Occurrences(folder, path) = Len(DirectoriesIn(folder))

\* A scanned folder with two directory entries, one of them indexed.
C29_SiblingDirectoriesReached ==
  \E folder \in ScannedFolders :
    Len(DirectoriesIn(folder)) > 1 /\ IndexedBelow(folder) # {}

(***************************************************************************)
(* Claims about the files generateMetadataFiles reports.                   *)
(***************************************************************************)
\* generateMetadataFiles has returned.
Generated == pc \in {"regenerate", "done"} /\ ~failed

\* The list run makes of the GeneratedFiles value: locales.json, the two
\* paths of every locale entry and the three paths of every folder entry.
AllUpdatedFiles ==
  {FileAt(<<>>, "locales.json")}
    \cup UNION {{localeIndices[k].full, localeIndices[k].shallow} :
                  k \in DOMAIN localeIndices}
    \cup UNION {{folderIndices[k].full, folderIndices[k].shallow,
                   folderIndices[k].ancestors} : k \in DOMAIN folderIndices}

\* The folders all three artifacts of which were written.
WrittenFolders ==
  {file.dir : file \in {f \in DOMAIN written :
                           /\ Len(f.dir) > 1
                           /\ \A name \in {"index.full.json",
                                             "index.shallow.json",
                                             "ancestors.json"} :
                                FileAt(f.dir, name) \in DOMAIN written}}

\* C30: the GeneratedFiles value generateMetadataFiles returns has a
\* folderIndices entry for every folder whose three artifacts were written,
\* in every locale, so the list of generated files holds every file
\* written, also when two locales hold folders with the same slug path.
C30_EveryWrittenFolderListed ==
  Generated =>
    /\ \A dir \in WrittenFolders :
         \E k \in DOMAIN folderIndices :
           folderIndices[k].full = FileAt(dir, "index.full.json")
    /\ DOMAIN written \subseteq AllUpdatedFiles

\* What the value holds: one entry for every slug path, whatever the
\* locale, naming files that were written.
C30_OneEntryPerSlugPath ==
  Generated =>
    /\ \A dir \in WrittenFolders :
         Join(Tail(dir), "/") \in DOMAIN folderIndices
    /\ AllUpdatedFiles \subseteq DOMAIN written

\* The folders of one locale are all listed.
C30_SingleLocaleListed ==
  (Generated /\ \A dir \in WrittenFolders : dir[1] = UkUA) =>
    DOMAIN written \subseteq AllUpdatedFiles

\* Two locales wrote a folder with the same slug path.
C30_SameSlugPathReached ==
  /\ Generated
  /\ \E a, b \in WrittenFolders : a # b /\ Tail(a) = Tail(b)

====
